---- MODULE Spec2Model ----
(***************************************************************************)
(* The context-aggregation server of backend/app/mcp (MCPServer) with its  *)
(* four context providers, as a state machine.                             *)
(*                                                                         *)
(* The server runs on one asyncio event loop: a coroutine runs until it    *)
(* awaits something that really suspends, so every action below is one     *)
(* stretch of code between two suspension points.                          *)
(*                                                                         *)
(* Strings are sequences of one-character strings.  Scores are integers    *)
(* in hundredths (0.3 is 30).  Time is in whole seconds.                   *)
(***************************************************************************)
EXTENDS Integers, Sequences, FiniteSets, TLC

(***************************************************************************)
(* Strings and optional values                                             *)
(***************************************************************************)
Rep(ch, n) == [i \in 1..n |-> ch]

Range(s) == { s[i] : i \in DOMAIN s }

\* s[:n]
Take(s, n) == IF Len(s) <= n THEN s ELSE SubSeq(s, 1, n)

\* kw in s
Contains(s, kw) ==
    \E i \in 0..(Len(s) - Len(kw)) : SubSeq(s, i + 1, i + Len(kw)) = kw

\* set(s.split()), for texts whose only whitespace is the blank
Words(s) ==
    { SubSeq(s, p[1], p[2]) :
        p \in { q \in (1..Len(s)) \X (1..Len(s)) :
                  /\ q[1] <= q[2]
                  /\ \A k \in q[1]..q[2] : s[k] # " "
                  /\ q[1] = 1 \/ s[q[1] - 1] = " "
                  /\ q[2] = Len(s) \/ s[q[2] + 1] = " " } }

\* Optional[T]: None, or a value
None == << >>
Some(x) == << x >>

\* d.get(field, default)
Get(d, field, default) == IF field \in DOMAIN d THEN d[field] ELSE default

Min(a, b) == IF a <= b THEN a ELSE b

RECURSIVE SumSeq(_)
SumSeq(s) == IF s = << >> THEN 0 ELSE Head(s) + SumSeq(Tail(s))

(***************************************************************************)
(* Program constants                                                       *)
(***************************************************************************)
\* self.cache_ttl
cache_ttl == 300

\* message[:50] in the cache key
PrefixLen == 50

\* the knowledge cache's "age < 3600"
KnowledgeTtl == 3600

\* timedelta.seconds is the seconds part of days/seconds/microseconds
SecondsPerDay == 86400

\* (datetime.now() - timestamp).seconds, for a clock that does not go back
Seconds(delta) == delta % SecondsPerDay

\* the keys of self.providers, in the order initialize() inserts them
ProviderNames ==
    << "patient_history", "service_classification",
       "knowledge_base", "medical_intelligence" >>

Providers == Range(ProviderNames)

(***************************************************************************)
(* Bounds of the model                                                     *)
(***************************************************************************)
\* calls made to the server in one behaviour
MaxCalls == 3

\* longest caller-supplied context_types list
MaxTypes == 2

\* times the clock is advanced
MaxTicks == 2
MaxSlow == 1

\* similar cases the store can hold for a symptom
MaxCases == 1

\* distinct treatment mentions the store can hold
MaxTreatments == 1

Calls == 1..MaxCalls

(***************************************************************************)
(* Inputs                                                                  *)
(***************************************************************************)
\* two ids ObjectId() accepts
UserA == Rep("a", 24)
UserB == Rep("b", 24)

ConvC == << "c" >>

Filler == Rep("x", 41)

\* 50 characters
MsgHead == Filler \o << " ","p","a","i","n"," ","a"," ","b" >>

\* the same first 50 characters, different tails
Msg1 == MsgHead \o << " ","c" >>
Msg2 == MsgHead \o << " ","c"," ","d" >>

\* shorter than 50 characters
Msg3 == << "a"," ","b"," ","c" >>
Msg4 == << "g","u","t"," ","p","a","i","n" >>

AllMessages == { Msg1, Msg2, Msg3, Msg4 }

\* the knowledge_base collection: the "content" of its entries
EntryContent == << "p","a","i","n"," ","a"," ","b"," ","c"," ","d" >>

KnowledgeDB == << EntryContent >>

\* what a find() on the knowledge_base collection can return
DbResults == { << >>, KnowledgeDB }

\* provider names a caller may put in context_types
TypeNames == Providers \cup { "unknown" }

TypeLists(n) == UNION { [1..k -> TypeNames] : k \in 0..n }

(***************************************************************************)
(* ContextEngine                                                           *)
(***************************************************************************)
symptom_patterns ==
    {
      <<"p","a","i","n">>,
      <<"a","c","h","e">>,
      <<"f","e","v","e","r">>,
      <<"c","o","u","g","h">>,
      <<"n","a","u","s","e","a">>,
      <<"v","o","m","i","t","i","n","g">>,
      <<"d","i","z","z","i","n","e","s","s">>,
      <<"f","a","t","i","g","u","e">>,
      <<"h","e","a","d","a","c","h","e">>,
      <<"s","w","e","l","l","i","n","g">>,
      <<"r","a","s","h">>,
      <<"i","t","c","h","i","n","g">>,
      <<"b","l","e","e","d","i","n","g">>,
      <<"b","u","r","n","i","n","g">>,
      <<"n","u","m","b","n","e","s","s">>
    }

\* extract_medical_entities(text)["symptoms"], as a set: the words of a
\* lower-case text of letters and blanks that the \b(...)\b patterns match
Symptoms(text) == Words(text) \cap symptom_patterns

content_fields == << "content", "text", "description", "symptoms", "diagnosis" >>

\* score += len(common_words) * 0.1, for each content field of the record
KeywordScore(context, query) ==
    SumSeq([k \in DOMAIN content_fields |->
              IF content_fields[k] \in DOMAIN context
              THEN 10 * Cardinality(Words(query) \cap Words(context[content_fields[k]]))
              ELSE 0])

FlatBoost(context) == IF "timestamp" \in DOMAIN context THEN 30 ELSE 0

\* the recency boost: a timestamp is [valid |-> FALSE] when fromisoformat
\* raises on it (the except passes), else it has its age in hours
RecencyBoost(context) ==
    IF "timestamp" \notin DOMAIN context \/ ~context.timestamp.valid THEN 0
    ELSE IF context.timestamp.age_hours < 24 THEN 30
    ELSE IF context.timestamp.age_hours < 168 THEN 10
    ELSE 0

\* score += context["confidence"] * 0.2, confidence in hundredths
ConfidenceBoost(context) ==
    IF "confidence" \in DOMAIN context THEN (context.confidence * 20) \div 100 ELSE 0

\* score_relevance(context, query), in hundredths: 0.0 for an empty record
\* or query, else min(score, 1.0)
score_relevance(context, query) ==
    IF DOMAIN context = {} \/ query = << >> THEN 0
    ELSE Min(KeywordScore(context, query) + RecencyBoost(context)
                + ConfidenceBoost(context),
             100)

\* relevance > 0.3: the score is n * 0.1 in floating point, and
\* 3 * 0.1 = 0.30000000000000004 is greater than 0.3
AboveThreshold(relevance) == relevance >= 30

(***************************************************************************)
(* KnowledgeBaseProvider._detect_specialty                                 *)
(***************************************************************************)
specialty_keywords ==
    <<
      [specialty |-> "Cardiology", keywords |-> <<
          <<"h","e","a","r","t">>,
          <<"c","a","r","d","i","a","c">>,
          <<"b","l","o","o","d"," ","p","r","e","s","s","u","r","e">>,
          <<"c","h","e","s","t"," ","p","a","i","n">>,
          <<"a","r","r","h","y","t","h","m","i","a">> >>],
      [specialty |-> "Dermatology", keywords |-> <<
          <<"s","k","i","n">>,
          <<"r","a","s","h">>,
          <<"a","c","n","e">>,
          <<"e","c","z","e","m","a">>,
          <<"p","s","o","r","i","a","s","i","s">> >>],
      [specialty |-> "Orthopedics", keywords |-> <<
          <<"b","o","n","e">>,
          <<"j","o","i","n","t">>,
          <<"f","r","a","c","t","u","r","e">>,
          <<"s","p","r","a","i","n">>,
          <<"a","r","t","h","r","i","t","i","s">> >>],
      [specialty |-> "Neurology", keywords |-> <<
          <<"h","e","a","d","a","c","h","e">>,
          <<"m","i","g","r","a","i","n","e">>,
          <<"s","e","i","z","u","r","e">>,
          <<"b","r","a","i","n">>,
          <<"n","e","r","v","e">> >>],
      [specialty |-> "Gastroenterology", keywords |-> <<
          <<"s","t","o","m","a","c","h">>,
          <<"d","i","g","e","s","t","i","o","n">>,
          <<"n","a","u","s","e","a">>,
          <<"d","i","a","r","r","h","e","a">>,
          <<"g","u","t">> >>],
      [specialty |-> "Respiratory", keywords |-> <<
          <<"c","o","u","g","h">>,
          <<"b","r","e","a","t","h","i","n","g">>,
          <<"a","s","t","h","m","a">>,
          <<"l","u","n","g">>,
          <<"b","r","o","n","c","h","i","t","i","s">> >>],
      [specialty |-> "Pediatrics", keywords |-> <<
          <<"c","h","i","l","d">>,
          <<"b","a","b","y">>,
          <<"i","n","f","a","n","t">>,
          <<"k","i","d">>,
          <<"p","e","d","i","a","t","r","i","c">> >>],
      [specialty |-> "Gynecology", keywords |-> <<
          <<"p","r","e","g","n","a","n","c","y">>,
          <<"m","e","n","s","t","r","u","a","l">>,
          <<"g","y","n","e","c","o","l","o","g","i","c","a","l">>,
          <<"w","o","m","e","n">> >>],
      [specialty |-> "Psychiatry", keywords |-> <<
          <<"m","e","n","t","a","l">>,
          <<"d","e","p","r","e","s","s","i","o","n">>,
          <<"a","n","x","i","e","t","y">>,
          <<"s","t","r","e","s","s">>,
          <<"p","s","y","c","h","i","a","t","r","i","c">> >>]
    >>

RECURSIVE DetectFrom(_, _)
DetectFrom(message, i) ==
    IF i > Len(specialty_keywords) THEN "General Medicine"
    ELSE IF \E k \in DOMAIN specialty_keywords[i].keywords :
                Contains(message, specialty_keywords[i].keywords[k])
         THEN specialty_keywords[i].specialty
         ELSE DetectFrom(message, i + 1)

_detect_specialty(message) == DetectFrom(message, 1)

\* the analysis of each input message, computed once
SpecialtyOf == [m \in AllMessages |-> _detect_specialty(m)]
SymptomsOf == [m \in AllMessages |-> Symptoms(m)]
RelevanceOf ==
    [m \in AllMessages |-> [t \in Range(KnowledgeDB) |-> score_relevance([content |-> t], m)]]

(***************************************************************************)
(* State                                                                   *)
(***************************************************************************)
VARIABLES
    initialized,      \* MCPServer.initialized
    providers,        \* the keys of MCPServer.providers, in insertion order
    ready,            \* per provider: its own initialize() ran to its end
    cache,            \* MCPServer.cache: key -> [timestamp, context]
    knowledge_cache,  \* KnowledgeBaseProvider.knowledge_cache: specialty -> [data, timestamp]
    knowledge,        \* the knowledge lists on the heap: list id -> entry dicts
    now,              \* datetime.now()
    ticks,            \* times the clock was advanced
    calls,            \* the calls to the server and where each stands
    constructed,      \* history: times the provider set was constructed
    initCalls,        \* history: per provider, calls of its initialize()
    applied           \* the last call of a function without state, and its result

initvars == << initialized, providers, ready, constructed, initCalls, knowledge_cache >>

server == << initialized, providers, ready, cache, knowledge_cache, knowledge,
             now, ticks, calls, constructed, initCalls >>

vars == << server, applied >>

\* a dict with string or tuple keys
Empty == [x \in {} |-> 0]
Put(d, k, v) == [x \in DOMAIN d \cup {k} |-> IF x = k THEN v ELSE d[x]]

(***************************************************************************)
(* The results of a provider task                                          *)
(***************************************************************************)
Pending == [state |-> "pending"]
Fetching == [state |-> "fetching"]
Raised == [state |-> "raised"]

\* the task awaits a store operation that never completes
Hung == [state |-> "hung"]

IsSettled(r) == r \notin { Pending, Fetching, Hung }

\* what asyncio.wait(..., return_when=FIRST_COMPLETED) would wait for
SomeSettled(results) == \E i \in DOMAIN results : IsSettled(results[i])

\* asyncio.gather(*context_tasks, return_exceptions=True) has returned
AllSettled(results) == \A i \in DOMAIN results : IsSettled(results[i])

(***************************************************************************)
(* PatientHistoryProvider                                                  *)
(***************************************************************************)
HexDigits ==
    { "0","1","2","3","4","5","6","7","8","9","a","b","c","d","e","f" }

\* bson's ObjectId(user_id) accepts a string of 24 hexadecimal digits
IsObjectId(u) == Len(u) = 24 /\ \A i \in DOMAIN u : u[i] \in HexDigits

\* what the store can hold for a user: the number of conversations, the
\* symptoms found in their messages, the age of the latest conversation
Histories ==
    { [conversations |-> 0, symptoms |-> << >>, medications |-> << >>,
       latest_age_days |-> 0],
      [conversations |-> 1, symptoms |-> << <<"p","a","i","n">> >>,
       medications |-> << >>, latest_age_days |-> 0],
      [conversations |-> 1, symptoms |-> << >>, medications |-> << >>,
       latest_age_days |-> 0] }

_calculate_relevance(message, symptoms, medications, conversations, latest_age_days) ==
    Min(  20 * Cardinality({ i \in DOMAIN symptoms : Contains(message, symptoms[i]) })
        + 20 * Cardinality({ i \in DOMAIN medications : Contains(message, medications[i]) })
        + (IF conversations > 0
           THEN IF latest_age_days < 7 THEN 30
                ELSE IF latest_age_days < 30 THEN 10 ELSE 0
           ELSE 0)
        + (IF conversations > 5 THEN 20 ELSE 0),
        100)

PHRecord(h, message) ==
    [source |-> "patient_history",
     previous_conversations |-> Min(h.conversations, 10),
     recent_symptoms |-> Take(h.symptoms, 10),
     relevance_score |->
        _calculate_relevance(message, h.symptoms, h.medications, h.conversations,
                             h.latest_age_days)]

PHError == [source |-> "patient_history", error |-> TRUE, relevance_score |-> 0]

\* get_context: the record, or the error record when the store handle is
\* missing, the id is no ObjectId or a query fails
PHOutcomes(user, message, rdy) ==
    { PHError } \cup
    (IF rdy /\ IsObjectId(user)
     THEN { PHRecord(h, message) : h \in Histories } ELSE {})

(***************************************************************************)
(* MedicalIntelligenceProvider                                             *)
(***************************************************************************)
MINoSymptoms ==
    [source |-> "medical_intelligence",
     message |-> "No symptoms detected for pattern analysis",
     relevance_score |-> 0]

MIUnclamped(cases, treatments) ==
    [source |-> "medical_intelligence",
     similar_cases |-> cases,
     common_treatments |-> Min(treatments, 5),
     relevance_score |-> 10 * cases]

\* cases similar cases found, treatments dicts built by _get_treatment_patterns
MIRecord(cases, treatments) ==
    [source |-> "medical_intelligence",
     similar_cases |-> cases,
     common_treatments |-> Min(treatments, 5),
     relevance_score |-> Min(10 * cases, 100)]

\* without a store handle the three helpers catch their error and return []
MIOutcomes(message, rdy) ==
    IF SymptomsOf[message] = {} THEN { MINoSymptoms }
    ELSE { MIRecord(n, k) : n \in (IF rdy THEN 0..MaxCases ELSE {0}),
                            k \in (IF rdy THEN 0..MaxTreatments ELSE {0}) }

(***************************************************************************)
(* KnowledgeBaseProvider                                                   *)
(***************************************************************************)
NoScore == 0 - 1

\* the dicts _fetch_knowledge builds from the entries a find() returned
NewKnowledge(entries) ==
    [j \in DOMAIN entries |-> [content |-> entries[j], relevance_score |-> NoScore]]

\* the filter loop of get_context: entry["relevance_score"] = relevance
Rescored(list, message) ==
    [j \in DOMAIN list |->
        IF AboveThreshold(RelevanceOf[message][list[j].content])
        THEN [list[j] EXCEPT !.relevance_score = RelevanceOf[message][list[j].content]]
        ELSE list[j]]

\* indices of the entries above the threshold, in list order
RECURSIVE Relevant(_, _, _)
Relevant(list, message, j) ==
    IF j > Len(list) THEN << >>
    ELSE (IF AboveThreshold(RelevanceOf[message][list[j].content]) THEN << j >> ELSE << >>)
         \o Relevant(list, message, j + 1)

\* relevant.sort(key=relevance_score, reverse=True): stable
RECURSIVE InsertDesc(_, _, _)
InsertDesc(sorted, j, score) ==
    IF sorted = << >> THEN << j >>
    ELSE IF score[Head(sorted)] >= score[j]
         THEN << Head(sorted) >> \o InsertDesc(Tail(sorted), j, score)
         ELSE << j >> \o sorted

RECURSIVE SortDesc(_, _)
SortDesc(idx, score) ==
    IF idx = << >> THEN << >>
    ELSE InsertDesc(SortDesc(SubSeq(idx, 1, Len(idx) - 1), score), idx[Len(idx)], score)

\* the record get_context builds from knowledge list g, after the rescoring
KBRecord(specialty, g, list, message) ==
    LET after == Rescored(list, message)
        score == [j \in DOMAIN after |-> after[j].relevance_score]
        relevant == SortDesc(Relevant(list, message, 1), score)
        top == Take(relevant, 5)
    IN [source |-> "knowledge_base",
        specialty |-> specialty,
        relevant_knowledge |-> [k \in DOMAIN Take(relevant, 10) |-> << g, relevant[k] >>],
        total_entries |-> Len(list),
        matched_entries |-> Len(relevant),
        relevance_score |->
            IF relevant = << >> THEN 0
            ELSE SumSeq([k \in DOMAIN top |-> score[top[k]]]) \div 5]

(***************************************************************************)
(* ServiceClassificationProvider                                           *)
(***************************************************************************)
\* the return of classify_interaction when no service type scores
Fallback ==
    [service_type |-> "General Query", confidence |-> 30,
     sub_services |-> << >>, alternatives |-> << >>]

\* _build_classification_patterns: the keywords of each service type and
\* its regular expressions. An expression \b(a|b).*(c|d)\b is the words of
\* its first and of its second group; one without a second group,
\* \b(a|b)\b, has second empty; inner is TRUE for \b(a|b)\b.*\bc\b, which
\* also wants a word boundary on the inner side of both words.
classification_patterns ==
    <<
      [service_type |-> "Health Query",
       keywords |-> <<
          <<"p","a","i","n">>,
          <<"s","y","m","p","t","o","m">>,
          <<"s","i","c","k">>,
          <<"f","e","v","e","r">>,
          <<"c","o","u","g","h">>,
          <<"h","e","a","d","a","c","h","e">>,
          <<"d","i","z","z","y">>,
          <<"n","a","u","s","e","a">>,
          <<"a","c","h","e">>,
          <<"h","u","r","t">>,
          <<"f","e","e","l">>,
          <<"d","o","c","t","o","r">>,
          <<"d","i","a","g","n","o","s","i","s">>,
          <<"t","r","e","a","t","m","e","n","t">>,
          <<"p","r","e","s","c","r","i","p","t","i","o","n">>,
          <<"m","e","d","i","c","a","t","i","o","n">>,
          <<"a","l","l","e","r","g","y">>,
          <<"c","o","n","d","i","t","i","o","n">>,
          <<"d","i","s","e","a","s","e">>,
          <<"i","n","j","u","r","y">>,
          <<"b","l","e","e","d","i","n","g">> >>,
       patterns |-> <<
          [first |-> << <<"h","o","w">>, <<"w","h","a","t">>, <<"w","h","y">>, <<"w","h","e","n">> >>,
           second |-> << <<"f","e","e","l">>, <<"s","y","m","p","t","o","m">>, <<"p","a","i","n">>, <<"s","i","c","k">> >>,
           inner |-> FALSE],
          [first |-> << <<"i"," ","h","a","v","e">>, <<"e","x","p","e","r","i","e","n","c","i","n","g">>, <<"s","u","f","f","e","r","i","n","g"," ","f","r","o","m">> >>,
           second |-> <<  >>,
           inner |-> FALSE],
          [first |-> << <<"c","a","n"," ","y","o","u"," ","h","e","l","p">>, <<"c","a","n"," ","y","o","u"," ","t","e","l","l">>, <<"c","a","n"," ","y","o","u"," ","e","x","p","l","a","i","n">> >>,
           second |-> <<  >>,
           inner |-> FALSE] >>],
      [service_type |-> "Appointment Booking",
       keywords |-> <<
          <<"a","p","p","o","i","n","t","m","e","n","t">>,
          <<"s","c","h","e","d","u","l","e">>,
          <<"b","o","o","k">>,
          <<"m","e","e","t","i","n","g">>,
          <<"v","i","s","i","t">>,
          <<"a","v","a","i","l","a","b","l","e">>,
          <<"s","l","o","t">>,
          <<"t","i","m","e">>,
          <<"d","a","t","e">>,
          <<"c","a","n","c","e","l">>,
          <<"r","e","s","c","h","e","d","u","l","e">>,
          <<"s","e","e"," ","d","o","c","t","o","r">>,
          <<"c","o","n","s","u","l","t","a","t","i","o","n">>,
          <<"c","h","e","c","k","-","u","p">> >>,
       patterns |-> <<
          [first |-> << <<"b","o","o","k">>, <<"s","c","h","e","d","u","l","e">>, <<"m","a","k","e">>, <<"n","e","e","d">>, <<"w","a","n","t">> >>,
           second |-> << <<"a","p","p","o","i","n","t","m","e","n","t">>, <<"v","i","s","i","t">>, <<"m","e","e","t","i","n","g">> >>,
           inner |-> FALSE],
          [first |-> << <<"a","v","a","i","l","a","b","l","e">>, <<"w","h","e","n"," ","c","a","n">>, <<"w","h","a","t"," ","t","i","m","e">> >>,
           second |-> <<  >>,
           inner |-> FALSE],
          [first |-> << <<"c","a","n","c","e","l">>, <<"r","e","s","c","h","e","d","u","l","e">>, <<"c","h","a","n","g","e">> >>,
           second |-> << <<"a","p","p","o","i","n","t","m","e","n","t">> >>,
           inner |-> TRUE] >>],
      [service_type |-> "Phlebotomy",
       keywords |-> <<
          <<"b","l","o","o","d"," ","t","e","s","t">>,
          <<"l","a","b"," ","t","e","s","t">>,
          <<"b","l","o","o","d"," ","w","o","r","k">>,
          <<"s","a","m","p","l","e">>,
          <<"p","h","l","e","b","o","t","o","m","y">>,
          <<"d","r","a","w"," ","b","l","o","o","d">>,
          <<"b","l","o","o","d"," ","c","o","l","l","e","c","t","i","o","n">>,
          <<"t","e","s","t"," ","r","e","s","u","l","t","s">>,
          <<"l","a","b"," ","r","e","s","u","l","t","s">> >>,
       patterns |-> <<
          [first |-> << <<"b","l","o","o","d">>, <<"l","a","b">> >>,
           second |-> << <<"t","e","s","t">>, <<"w","o","r","k">>, <<"s","a","m","p","l","e">>, <<"r","e","s","u","l","t">> >>,
           inner |-> FALSE],
          [first |-> << <<"p","h","l","e","b","o","t","o","m","y">> >>,
           second |-> <<  >>,
           inner |-> FALSE] >>],
      [service_type |-> "Insurance Query",
       keywords |-> <<
          <<"i","n","s","u","r","a","n","c","e">>,
          <<"c","o","v","e","r","a","g","e">>,
          <<"c","l","a","i","m">>,
          <<"c","o","p","a","y">>,
          <<"d","e","d","u","c","t","i","b","l","e">>,
          <<"p","r","e","m","i","u","m">>,
          <<"b","e","n","e","f","i","t","s">>,
          <<"p","o","l","i","c","y">>,
          <<"b","i","l","l","i","n","g">>,
          <<"c","o","s","t">>,
          <<"p","a","y","m","e","n","t">>,
          <<"c","o","v","e","r","e","d">>,
          <<"p","r","o","v","i","d","e","r"," ","n","e","t","w","o","r","k">> >>,
       patterns |-> <<
          [first |-> << <<"i","n","s","u","r","a","n","c","e">>, <<"c","o","v","e","r","a","g","e">> >>,
           second |-> << <<"q","u","e","s","t","i","o","n">>, <<"q","u","e","r","y">>, <<"c","o","v","e","r","e","d">>, <<"c","o","s","t">> >>,
           inner |-> FALSE],
          [first |-> << <<"c","o","p","a","y">>, <<"d","e","d","u","c","t","i","b","l","e">>, <<"p","r","e","m","i","u","m">>, <<"c","l","a","i","m">> >>,
           second |-> <<  >>,
           inner |-> FALSE] >>],
      [service_type |-> "Tech Support",
       keywords |-> <<
          <<"a","p","p">>,
          <<"w","e","b","s","i","t","e">>,
          <<"l","o","g","i","n">>,
          <<"p","a","s","s","w","o","r","d">>,
          <<"e","r","r","o","r">>,
          <<"b","u","g">>,
          <<"n","o","t"," ","w","o","r","k","i","n","g">>,
          <<"p","r","o","b","l","e","m">>,
          <<"i","s","s","u","e">>,
          <<"t","e","c","h","n","i","c","a","l">>,
          <<"a","c","c","e","s","s">>,
          <<"a","c","c","o","u","n","t">>,
          <<"s","i","g","n"," ","i","n">>,
          <<"r","e","s","e","t">>,
          <<"p","o","r","t","a","l">> >>,
       patterns |-> <<
          [first |-> << <<"a","p","p">>, <<"w","e","b","s","i","t","e">>, <<"p","o","r","t","a","l">> >>,
           second |-> << <<"n","o","t"," ","w","o","r","k","i","n","g">>, <<"e","r","r","o","r">>, <<"p","r","o","b","l","e","m">>, <<"i","s","s","u","e">> >>,
           inner |-> FALSE],
          [first |-> << <<"c","a","n","'","t">>, <<"c","a","n","n","o","t">> >>,
           second |-> << <<"l","o","g","i","n">>, <<"a","c","c","e","s","s">>, <<"s","i","g","n"," ","i","n">> >>,
           inner |-> FALSE],
          [first |-> << <<"p","a","s","s","w","o","r","d">>, <<"a","c","c","o","u","n","t">> >>,
           second |-> << <<"r","e","s","e","t">>, <<"f","o","r","g","o","t">>, <<"r","e","c","o","v","e","r">> >>,
           inner |-> FALSE] >>],
      [service_type |-> "Attachment Shared",
       keywords |-> <<
          <<"a","t","t","a","c","h","m","e","n","t">>,
          <<"f","i","l","e">>,
          <<"d","o","c","u","m","e","n","t">>,
          <<"r","e","p","o","r","t">>,
          <<"i","m","a","g","e">>,
          <<"u","p","l","o","a","d">>,
          <<"s","e","n","d">>,
          <<"s","h","a","r","e">>,
          <<"p","h","o","t","o">>,
          <<"s","c","a","n">>,
          <<"p","d","f">> >>,
       patterns |-> <<
          [first |-> << <<"a","t","t","a","c","h">>, <<"u","p","l","o","a","d">>, <<"s","e","n","d">>, <<"s","h","a","r","e">> >>,
           second |-> << <<"f","i","l","e">>, <<"d","o","c","u","m","e","n","t">>, <<"r","e","p","o","r","t">>, <<"i","m","a","g","e">> >>,
           inner |-> FALSE],
          [first |-> << <<"s","e","e">>, <<"v","i","e","w">>, <<"c","h","e","c","k">> >>,
           second |-> << <<"a","t","t","a","c","h","m","e","n","t">>, <<"r","e","p","o","r","t">>, <<"d","o","c","u","m","e","n","t">> >>,
           inner |-> FALSE] >>],
      [service_type |-> "Customer Experience",
       keywords |-> <<
          <<"f","e","e","d","b","a","c","k">>,
          <<"c","o","m","p","l","a","i","n","t">>,
          <<"s","u","g","g","e","s","t","i","o","n">>,
          <<"r","e","v","i","e","w">>,
          <<"r","a","t","i","n","g">>,
          <<"e","x","p","e","r","i","e","n","c","e">>,
          <<"s","e","r","v","i","c","e">>,
          <<"s","a","t","i","s","f","i","e","d">>,
          <<"u","n","h","a","p","p","y">>,
          <<"i","s","s","u","e">> >>,
       patterns |-> <<
          [first |-> << <<"f","e","e","d","b","a","c","k">>, <<"c","o","m","p","l","a","i","n","t">>, <<"s","u","g","g","e","s","t","i","o","n">> >>,
           second |-> <<  >>,
           inner |-> FALSE],
          [first |-> << <<"r","a","t","e">>, <<"r","e","v","i","e","w">> >>,
           second |-> << <<"s","e","r","v","i","c","e">>, <<"e","x","p","e","r","i","e","n","c","e">> >>,
           inner |-> FALSE] >>]
    >>

UpperLetters ==
    << "A","B","C","D","E","F","G","H","I","J","K","L","M",
       "N","O","P","Q","R","S","T","U","V","W","X","Y","Z" >>
LowerLetters ==
    << "a","b","c","d","e","f","g","h","i","j","k","l","m",
       "n","o","p","q","r","s","t","u","v","w","x","y","z" >>

\* message.lower()
Lower(message) ==
    [i \in DOMAIN message |->
        IF \E k \in DOMAIN UpperLetters : UpperLetters[k] = message[i]
        THEN LowerLetters[CHOOSE k \in DOMAIN UpperLetters : UpperLetters[k] = message[i]]
        ELSE message[i]]

\* \w of a regular expression
IsWordChar(ch) ==
    ch \in Range(LowerLetters) \cup Range(UpperLetters)
           \cup { "0","1","2","3","4","5","6","7","8","9","_" }

\* \b between s[i] and s[i + 1], i = 0 and i = Len(s) being the two ends
Boundary(s, i) ==
    (i >= 1 /\ IsWordChar(s[i])) # (i < Len(s) /\ IsWordChar(s[i + 1]))

\* the places of s where w stands
PlacesOf(s, w) ==
    { i \in 1..(Len(s) - Len(w) + 1) : SubSeq(s, i, i + Len(w) - 1) = w }

\* re.search(pattern, s)
re_search(pattern, s) ==
    \E a \in Range(pattern.first) : \E i \in PlacesOf(s, a) :
        /\ Boundary(s, i - 1)
        /\ IF pattern.second = << >>
           THEN Boundary(s, i + Len(a) - 1)
           ELSE /\ pattern.inner => Boundary(s, i + Len(a) - 1)
                /\ \E b \in Range(pattern.second) : \E j \in PlacesOf(s, b) :
                      /\ j >= i + Len(a)
                      /\ pattern.inner => Boundary(s, j - 1)
                      /\ Boundary(s, j + Len(b) - 1)

\* sum(1 for kw in keywords if kw in message_lower)
keyword_matches(message, keywords) ==
    Cardinality({ k \in DOMAIN keywords : Contains(message, keywords[k]) })

\* sum(1 for pattern in patterns if re.search(pattern, message_lower))
pattern_matches(message, patterns) ==
    Cardinality({ k \in DOMAIN patterns : re_search(patterns[k], message) })

\* min(k / 3.0, 1.0) * 0.6 + min(p / 2.0, 1.0) * 0.4 as the floating-point
\* arithmetic gives it, in thousandths: every value is the multiple of 0.2
\* but for 1 / 3.0 * 0.6 = 0.19999999999999998 and
\* 2 / 3.0 * 0.6 = 0.39999999999999997, which 199 and 399 stand for
FloatScore(k, p) ==
    IF p = 0 /\ k \in { 1, 2 } THEN 200 * k - 1
    ELSE 200 * (Min(k, 3) + Min(p, 2))

\* the score of one service type
ServiceScore(message, p) ==
    FloatScore(keyword_matches(message, p.keywords),
               pattern_matches(message, p.patterns))

\* a score of thousandths in the hundredths the records carry
Hundredths(score) == (score + 5) \div 10

BothTags(modification, booking) ==
    (IF modification THEN << "modification" >> ELSE << >>)
    \o (IF booking THEN << "new_booking" >> ELSE << >>)

\* if "cancel" in message or "reschedule" in message: ...
\* elif "book" in message or "schedule" in message: ...
BookingTags(modification, booking) ==
    IF modification THEN << "modification" >>
    ELSE IF booking THEN << "new_booking" >>
    ELSE << >>

\* the specialties of _detect_sub_services and their keywords
specialties ==
    << [name |-> "cardiology",
        keywords |-> << <<"h","e","a","r","t">>, <<"c","a","r","d","i","a","c">>,
                        <<"c","h","e","s","t"," ","p","a","i","n">>,
                        <<"b","l","o","o","d"," ","p","r","e","s","s","u","r","e">> >>],
       [name |-> "dermatology",
        keywords |-> << <<"s","k","i","n">>, <<"r","a","s","h">>,
                        <<"a","c","n","e">>, <<"i","t","c","h">> >>],
       [name |-> "orthopedics",
        keywords |-> << <<"b","o","n","e">>, <<"j","o","i","n","t">>,
                        <<"f","r","a","c","t","u","r","e">>, <<"s","p","r","a","i","n">> >>],
       [name |-> "neurology",
        keywords |-> << <<"h","e","a","d","a","c","h","e">>, <<"m","i","g","r","a","i","n","e">>,
                        <<"s","e","i","z","u","r","e">>, <<"b","r","a","i","n">> >>],
       [name |-> "gastro",
        keywords |-> << <<"s","t","o","m","a","c","h">>, <<"d","i","g","e","s","t","i","o","n">>,
                        <<"n","a","u","s","e","a">>, <<"d","i","a","r","r","h","e","a">> >>],
       [name |-> "respiratory",
        keywords |-> << <<"c","o","u","g","h">>, <<"b","r","e","a","t","h","i","n","g">>,
                        <<"a","s","t","h","m","a">>, <<"l","u","n","g">> >>] >>

\* _detect_sub_services(message, service_type), message in lower case
_detect_sub_services(message, service_type) ==
    IF service_type = "Health Query"
    THEN LET hit == SelectSeq(specialties,
                        LAMBDA sp : keyword_matches(message, sp.keywords) > 0)
         IN [k \in DOMAIN hit |-> hit[k].name]
    ELSE IF service_type = "Appointment Booking"
    THEN BookingTags(Contains(message, <<"c","a","n","c","e","l">>)
                        \/ Contains(message, <<"r","e","s","c","h","e","d","u","l","e">>),
                     Contains(message, <<"b","o","o","k">>)
                        \/ Contains(message, <<"s","c","h","e","d","u","l","e">>))
         \o (IF \/ Contains(message, <<"u","r","g","e","n","t">>)
                \/ Contains(message, <<"a","s","a","p">>)
                \/ Contains(message, <<"e","m","e","r","g","e","n","c","y">>)
             THEN << "urgent" >> ELSE << >>)
    ELSE << >>

BelowThreshold(scores) == \A k \in DOMAIN scores : scores[k] <= 300

\* max(scores.values()) == 0
NothingScored(scores) == \A k \in DOMAIN scores : scores[k] = 0

LastPick(sorted_scores) == sorted_scores[Len(sorted_scores)]

\* sorted_scores[0]
TopPick(sorted_scores) == sorted_scores[1]

\* sorted_scores[1:4]
NextThree(sorted_scores) == SubSeq(sorted_scores, 2, Min(4, Len(sorted_scores)))

\* ServiceClassificationProvider.classify_interaction; table is empty when
\* initialize() did not get to _build_classification_patterns
classify_interaction(message, table) ==
    LET message_lower == Lower(message)
        scores == [k \in DOMAIN table |-> ServiceScore(message_lower, table[k])]
        sorted_scores == SortDesc([k \in DOMAIN table |-> k], scores)
        others == IF table = << >> THEN << >> ELSE NextThree(sorted_scores)
    IN IF table = << >> \/ NothingScored(scores)
       THEN Fallback
       ELSE [service_type |-> table[TopPick(sorted_scores)].service_type,
             confidence |-> Hundredths(scores[TopPick(sorted_scores)]),
             sub_services |->
                 _detect_sub_services(message_lower,
                                      table[TopPick(sorted_scores)].service_type),
             alternatives |->
                 LET high == SelectSeq(others, LAMBDA k : scores[k] > 300)
                 IN [k \in DOMAIN high |->
                       [service_type |-> table[high[k]].service_type,
                        confidence |-> Hundredths(scores[high[k]])]]]

\* the classification of each input message, with and without the table
ClassificationOf ==
    [m \in AllMessages |->
        [rdy \in BOOLEAN |->
            classify_interaction(m, IF rdy THEN classification_patterns ELSE << >>)]]

\* get_context: the record built from the classification
SCRecord(cl) ==
    [source |-> "service_classification",
     predicted_service_type |-> cl.service_type,
     confidence |-> cl.confidence,
     alternative_classifications |-> cl.alternatives,
     relevance_score |-> cl.confidence]

SCOutcomes(message, rdy) == { SCRecord(ClassificationOf[message][rdy]) }

(***************************************************************************)
(* MCPServer: the pure parts                                               *)
(***************************************************************************)
ConvStr(conversation_id) ==
    IF conversation_id = None THEN << "N","o","n","e" >> ELSE conversation_id[1]

\* f"{user_id}:{conversation_id}:{message[:50]}"
CacheKey(user_id, conversation_id, message) ==
    user_id \o << ":" >> \o ConvStr(conversation_id) \o << ":" >> \o Take(message, PrefixLen)

\* the cache check of get_context
IsFresh(key) ==
    key \in DOMAIN cache /\ Seconds(now - cache[key].timestamp) < cache_ttl

\* context_types or list(self.providers.keys())
ProvidersToUse(context_types, registered) ==
    IF context_types = None \/ context_types = Some(<< >>)
    THEN registered ELSE context_types[1]

\* the loop that creates one provider coroutine per registered name
ContextTasks(providers_to_use, registered) ==
    SelectSeq(providers_to_use, LAMBDA n : n \in Range(registered))

\* the loop "for i, provider_name in enumerate(providers_to_use)"
RECURSIVE Aggregate(_, _, _, _, _)
Aggregate(providers_to_use, registered, contexts, i, acc) ==
    IF i > Len(providers_to_use) THEN acc
    ELSE IF /\ providers_to_use[i] \in Range(registered)
            /\ i <= Len(contexts)
            /\ contexts[i] # Raised
         THEN Aggregate(providers_to_use, registered, contexts, i + 1,
                [contexts |-> Put(acc.contexts, providers_to_use[i], contexts[i]),
                 total_relevance |->
                    acc.total_relevance + Get(contexts[i], "relevance_score", 0)])
         ELSE Aggregate(providers_to_use, registered, contexts, i + 1, acc)

\* ', '.join(mi.get('common_treatments', [])[:2]) raises TypeError when the
\* list holds a dict, and _get_treatment_patterns builds a list of dicts
JoinRaises(contexts) ==
    /\ "medical_intelligence" \in DOMAIN contexts
    /\ Get(contexts["medical_intelligence"], "similar_cases", 0) # 0
    /\ Min(Get(contexts["medical_intelligence"], "common_treatments", 0), 2) > 0

\* _generate_context_summary: the fragments that " | " joins
_generate_context_summary(contexts) ==
    LET hist == Get(contexts, "patient_history", Empty)
        svc == Get(contexts, "service_classification", Empty)
        kb == Get(contexts, "knowledge_base", Empty)
        mi == Get(contexts, "medical_intelligence", Empty)
    IN (IF Get(hist, "previous_conversations", 0) # 0
        THEN << [part |-> "Patient History",
                 conversations |-> hist.previous_conversations,
                 symptoms |-> Take(Get(hist, "recent_symptoms", << >>), 3)] >>
        ELSE << >>)
       \o
       (IF "predicted_service_type" \in DOMAIN svc
        THEN << [part |-> "Likely Service",
                 service |-> svc.predicted_service_type,
                 confidence |-> Get(svc, "confidence", 0)] >>
        ELSE << >>)
       \o
       (IF Get(kb, "relevant_knowledge", << >>) # << >>
        THEN << [part |-> "Relevant Medical Knowledge",
                 entries |-> Len(kb.relevant_knowledge),
                 specialty |-> Get(kb, "specialty", "general")] >>
        ELSE << >>)
       \o
       (IF Get(mi, "similar_cases", 0) # 0
        THEN << [part |-> "Similar Cases", cases |-> mi.similar_cases] >>
        ELSE << >>)

(***************************************************************************)
(* The text of the summary                                                 *)
(***************************************************************************)
\* the characters of the service types and specialties
TextOf ==
    "General Query" :> <<"G","e","n","e","r","a","l"," ","Q","u","e","r","y">> @@
    "Health Query" :> <<"H","e","a","l","t","h"," ","Q","u","e","r","y">> @@
    "Appointment Booking" :> <<"A","p","p","o","i","n","t","m","e","n","t"," ","B","o","o","k","i","n","g">> @@
    "Phlebotomy" :> <<"P","h","l","e","b","o","t","o","m","y">> @@
    "Insurance Query" :> <<"I","n","s","u","r","a","n","c","e"," ","Q","u","e","r","y">> @@
    "Tech Support" :> <<"T","e","c","h"," ","S","u","p","p","o","r","t">> @@
    "Attachment Shared" :> <<"A","t","t","a","c","h","m","e","n","t"," ","S","h","a","r","e","d">> @@
    "Customer Experience" :> <<"C","u","s","t","o","m","e","r"," ","E","x","p","e","r","i","e","n","c","e">> @@
    "General Medicine" :> <<"G","e","n","e","r","a","l"," ","M","e","d","i","c","i","n","e">> @@
    "Cardiology" :> <<"C","a","r","d","i","o","l","o","g","y">> @@
    "Dermatology" :> <<"D","e","r","m","a","t","o","l","o","g","y">> @@
    "Orthopedics" :> <<"O","r","t","h","o","p","e","d","i","c","s">> @@
    "Neurology" :> <<"N","e","u","r","o","l","o","g","y">> @@
    "Gastroenterology" :> <<"G","a","s","t","r","o","e","n","t","e","r","o","l","o","g","y">> @@
    "Respiratory" :> <<"R","e","s","p","i","r","a","t","o","r","y">> @@
    "Pediatrics" :> <<"P","e","d","i","a","t","r","i","c","s">> @@
    "Gynecology" :> <<"G","y","n","e","c","o","l","o","g","y">> @@
    "Psychiatry" :> <<"P","s","y","c","h","i","a","t","r","y">> @@
    "general" :> <<"g","e","n","e","r","a","l">>

Digits == << "0","1","2","3","4","5","6","7","8","9" >>

\* str(n) of a natural number
RECURSIVE Str(_)
Str(n) == IF n < 10 THEN << Digits[n + 1] >> ELSE Str(n \div 10) \o << Digits[(n % 10) + 1] >>

\* sep.join(parts)
RECURSIVE Join(_, _)
Join(sep, parts) ==
    IF parts = << >> THEN << >>
    ELSE IF Len(parts) = 1 THEN parts[1]
    ELSE parts[1] \o sep \o Join(sep, Tail(parts))

\* f"{confidence:.1%}" of a score in hundredths
Percent(confidence) == Str(confidence) \o << ".", "0", "%" >>

\* the f-string of each fragment
FragmentText(f) ==
    CASE f.part = "Patient History" ->
           <<"P","a","t","i","e","n","t"," ","H","i","s","t","o","r","y",":"," ">> \o Str(f.conversations)
           \o <<" ","p","r","e","v","i","o","u","s"," ","c","o","n","v","e","r","s","a","t","i","o","n","s","."," ">>
           \o <<"R","e","c","e","n","t"," ","s","y","m","p","t","o","m","s",":"," ">>
           \o Join(<< ",", " " >>, f.symptoms)
      [] f.part = "Likely Service" ->
           <<"L","i","k","e","l","y"," ","S","e","r","v","i","c","e",":"," ">> \o TextOf[f.service]
           \o <<" ","(","c","o","n","f","i","d","e","n","c","e",":"," ">> \o Percent(f.confidence) \o << ")" >>
      [] f.part = "Relevant Medical Knowledge" ->
           <<"R","e","l","e","v","a","n","t"," ","M","e","d","i","c","a","l"," ","K","n","o","w","l","e","d","g","e",":"," ">> \o Str(f.entries)
           \o <<" ","e","n","t","r","i","e","s"," ","f","r","o","m"," ">> \o TextOf[f.specialty]
           \o <<" ","s","p","e","c","i","a","l","t","y">>
      [] OTHER ->
           <<"S","i","m","i","l","a","r"," ","C","a","s","e","s",":"," ">> \o Str(f.cases)
           \o <<" ","p","a","t","i","e","n","t","s"," ","w","i","t","h"," ","s","i","m","i","l","a","r"," ","s","y","m","p","t","o","m","s","."," ">>
           \o <<"C","o","m","m","o","n"," ","t","r","e","a","t","m","e","n","t","s",":"," ">>

\* " | ".join(summary_parts)
SummaryText(contexts) ==
    Join(<< " ", "|", " " >>,
         [k \in DOMAIN _generate_context_summary(contexts) |->
             FragmentText(_generate_context_summary(contexts)[k])])

\* a record as a reader sees it: the knowledge entries it lists are the dicts
\* of the knowledge list, not copies
Deref(rec) ==
    IF "relevant_knowledge" \in DOMAIN rec
    THEN [rec EXCEPT !.relevant_knowledge =
            [k \in DOMAIN rec.relevant_knowledge |->
                knowledge[rec.relevant_knowledge[k][1]][rec.relevant_knowledge[k][2]]]]
    ELSE rec

Content(context) ==
    [context EXCEPT !.contexts = [n \in DOMAIN context.contexts |-> Deref(context.contexts[n])]]

(***************************************************************************)
(* Calls                                                                   *)
(***************************************************************************)
IdleCall ==
    [kind |-> "none", pc |-> "idle",
     user_id |-> << >>, conversation_id |-> None, message |-> << >>,
     context_types |-> None,
     providers_to_use |-> << >>,   \* as computed after the cache check
     context_tasks |-> << >>,      \* the provider of each task, in gather order
     contexts |-> << >>,           \* the result of each task
     hit |-> FALSE,                \* returned from the cache
     raised |-> FALSE,             \* the call raised to its caller
     ret |-> None,                 \* what was returned, as the caller reads it
     started |-> 0,                \* history: the time of the cache check
     age |-> NoScore,              \* history: the age of the entry found, if any
     after |-> {},                 \* history: the calls that had stored by then
     stored |-> NoScore,           \* history: the time of the cache write
     faulted |-> {},               \* history: the tasks in which a step failed
     runs |-> << >>]               \* history: how often each task was started

\* calls are numbered in the order they start
MayStart(c) ==
    /\ calls[c].pc = "idle"
    /\ \A d \in Calls : d < c => calls[d].pc # "idle"

HaveStored == { d \in Calls : calls[d].stored # NoScore }

(***************************************************************************)
(* MCPServer.initialize                                                    *)
(***************************************************************************)
\* the loop without its try/except: the first provider failure leaves
\* initialize() before self.initialized = True (service_classification
\* catches its own)
Uncaught(failed) ==
    [raised |-> failed \ { "service_classification" } # {},
     initialized |-> failed \ { "service_classification" } = {}]

\* the loop over the providers and the statement after it: a provider's
\* initialize() that raises is caught inside the loop (except Exception), and
\* self.initialized = True is reached whatever failed
InitializeOutcome(failed) == [raised |-> FALSE, initialized |-> TRUE]

\* initialize() past its "if self.initialized: return".  Its awaits never
\* suspend: get_database() and _load_training_data() contain no await that
\* yields to the event loop, so no other coroutine runs inside it.
\* failed: the providers whose own initialize() does not run to its end.
initialize(failed) ==
    /\ providers' = ProviderNames
    /\ ready' = [p \in Providers |-> p \notin failed]
    /\ knowledge_cache' = Empty
    /\ constructed' = constructed + 1
    /\ initCalls' = [p \in Providers |-> initCalls[p] + 1]
    /\ initialized' = InitializeOutcome(failed).initialized

\* initialize() without its guard
NeverInitialized == FALSE

\* "if self.initialized: return", and the same test before the call in
\* get_context, classify_interaction and get_patient_insights
AlreadyInitialized == initialized

EnsureInitialized(failed) ==
    IF AlreadyInitialized
    THEN failed = {} /\ UNCHANGED initvars
    ELSE initialize(failed)

(***************************************************************************)
(* MCPServer.get_context                                                   *)
(***************************************************************************)
\* from "aggregated_context = {" to the return: merge, summarise, cache
Finish(c, call) ==
    LET registered == ProviderNames
        agg == Aggregate(call.providers_to_use, registered, call.contexts, 1,
                         [contexts |-> Empty, total_relevance |-> 0])
        key == CacheKey(call.user_id, call.conversation_id, call.message)
        aggregated_context ==
            [timestamp |-> now,
             user_id |-> call.user_id,
             conversation_id |-> call.conversation_id,
             contexts |-> agg.contexts,
             total_relevance |-> agg.total_relevance,
             context_summary |-> _generate_context_summary(agg.contexts)]
    IN IF JoinRaises(agg.contexts)
       THEN /\ calls' = [calls EXCEPT ![c] = [call EXCEPT !.pc = "done", !.raised = TRUE]]
            /\ UNCHANGED cache
       ELSE /\ cache' = Put(cache, key,
                  [timestamp |-> now, context |-> aggregated_context,
                   by |-> c, as_stored |-> Content(aggregated_context)])
            /\ calls' = [calls EXCEPT ![c] =
                  [call EXCEPT !.pc = "done", !.stored = now,
                               !.ret = Some(Content(aggregated_context))]]

\* get_context up to asyncio.gather: initialize if needed, check the cache,
\* create the provider tasks.  gather() of no task does not suspend.
GetContext(c, user_id, message, conversation_id, context_types, failed) ==
    /\ MayStart(c)
    /\ EnsureInitialized(failed)
    /\ LET key == CacheKey(user_id, conversation_id, message)
           use == ProvidersToUse(context_types, ProviderNames)
           tasks == ContextTasks(use, ProviderNames)
           call == [IdleCall EXCEPT
                      !.kind = "get_context",
                      !.user_id = user_id,
                      !.message = message,
                      !.conversation_id = conversation_id,
                      !.context_types = context_types,
                      !.started = now,
                      !.after = HaveStored,
                      !.age = IF key \in DOMAIN cache
                              THEN now - cache[key].timestamp ELSE NoScore]
       IN IF IsFresh(key)
          THEN /\ calls' = [calls EXCEPT ![c] =
                     [call EXCEPT !.pc = "done", !.hit = TRUE,
                                  !.ret = Some(Content(cache[key].context))]]
               /\ UNCHANGED cache
          ELSE IF tasks = << >>
          THEN Finish(c, [call EXCEPT !.providers_to_use = use])
          ELSE /\ calls' = [calls EXCEPT ![c] =
                     [call EXCEPT !.pc = "gather",
                                  !.providers_to_use = use,
                                  !.context_tasks = tasks,
                                  !.contexts = [i \in DOMAIN tasks |-> Pending],
                                  !.runs = [i \in DOMAIN tasks |-> 0]]]
               /\ UNCHANGED cache
    /\ UNCHANGED << knowledge, now, ticks, applied >>

\* a store operation failed inside the task that returned out:
\* patient_history returns its error record then, and without a store handle
\* the three helpers of medical_intelligence fail
StepFailed(c, i, out) ==
    \/ calls[c].context_tasks[i] = "patient_history" /\ out = PHError
    \/ /\ calls[c].context_tasks[i] = "medical_intelligence"
       /\ ~ready["medical_intelligence"]
       /\ out # MINoSymptoms

\* the task of patient_history, service_classification or medical_intelligence
\* runs to its return
Settle(c, i) ==
    /\ calls[c].pc = "gather"
    /\ i \in DOMAIN calls[c].context_tasks
    /\ calls[c].contexts[i] = Pending
    /\ calls[c].context_tasks[i] # "knowledge_base"
    /\ \E out \in
          CASE calls[c].context_tasks[i] = "patient_history" ->
                 PHOutcomes(calls[c].user_id, calls[c].message, ready["patient_history"])
            [] calls[c].context_tasks[i] = "service_classification" ->
                 SCOutcomes(calls[c].message, ready["service_classification"])
            [] OTHER ->
                 MIOutcomes(calls[c].message, ready["medical_intelligence"]) :
          calls' = [calls EXCEPT
                      ![c].contexts[i] = out,
                      ![c].runs[i] = @ + 1,
                      ![c].faulted = IF StepFailed(c, i, out) THEN @ \cup { i } ELSE @]
    /\ UNCHANGED << initvars, cache, knowledge, now, ticks, applied >>

\* a gather that ran a failed task again
Reattempt == Pending

\* return_exceptions=True: the exception is the result of the task
OnException == Raised

\* a provider task ends with an exception, which gather returns in its place
Raise(c, i) ==
    /\ calls[c].pc = "gather"
    /\ i \in DOMAIN calls[c].context_tasks
    /\ calls[c].contexts[i] \in { Pending, Fetching }
    /\ calls' = [calls EXCEPT
          ![c].contexts[i] = OnException,
          ![c].runs[i] = IF calls[c].contexts[i] = Pending THEN @ + 1 ELSE @]
    /\ UNCHANGED << initvars, cache, knowledge, now, ticks, applied >>

\* the knowledge_base task up to the find() of _fetch_knowledge: on a fresh
\* knowledge cache entry, or without a store handle, it runs to its return
KBRun(c, i) ==
    /\ calls[c].pc = "gather"
    /\ i \in DOMAIN calls[c].context_tasks
    /\ calls[c].context_tasks[i] = "knowledge_base"
    /\ calls[c].contexts[i] = Pending
    /\ LET specialty == SpecialtyOf[calls[c].message]
       IN IF /\ specialty \in DOMAIN knowledge_cache
             /\ Seconds(now - knowledge_cache[specialty].timestamp) < KnowledgeTtl
          THEN LET g == knowledge_cache[specialty].data
               IN /\ knowledge' = [knowledge EXCEPT ![g] = Rescored(@, calls[c].message)]
                  /\ calls' = [calls EXCEPT
                        ![c].contexts[i] =
                            KBRecord(specialty, g, knowledge[g], calls[c].message),
                        ![c].runs[i] = @ + 1]
          ELSE IF ~ready["knowledge_base"]
          THEN /\ calls' = [calls EXCEPT
                     ![c].contexts[i] = KBRecord(specialty, 0, << >>, calls[c].message),
                     ![c].runs[i] = @ + 1,
                     ![c].faulted = @ \cup { i }]
               /\ UNCHANGED knowledge
          ELSE /\ calls' = [calls EXCEPT ![c].contexts[i] = Fetching,
                                         ![c].runs[i] = @ + 1]
               /\ UNCHANGED knowledge
    /\ UNCHANGED << initvars, cache, now, ticks, applied >>

\* the find() fails, and _fetch_knowledge returns [] without caching
KBFetchFailed(c, i) ==
    /\ calls[c].pc = "gather"
    /\ i \in DOMAIN calls[c].context_tasks
    /\ calls[c].contexts[i] = Fetching
    /\ calls' = [calls EXCEPT
          ![c].contexts[i] =
              KBRecord(SpecialtyOf[calls[c].message], 0, << >>, calls[c].message),
          ![c].faulted = @ \cup { i }]
    /\ UNCHANGED << initvars, cache, knowledge, now, ticks, applied >>

\* the find() returns: build the list, cache it, filter it, return the record
KBFetched(c, i, entries) ==
    /\ calls[c].pc = "gather"
    /\ i \in DOMAIN calls[c].context_tasks
    /\ calls[c].contexts[i] = Fetching
    /\ LET specialty == SpecialtyOf[calls[c].message]
           g == Len(knowledge) + 1
           list == NewKnowledge(entries)
       IN /\ knowledge' = Append(knowledge, Rescored(list, calls[c].message))
          /\ knowledge_cache' = Put(knowledge_cache, specialty,
                                    [data |-> g, timestamp |-> now])
          /\ calls' = [calls EXCEPT ![c].contexts[i] =
                KBRecord(specialty, g, list, calls[c].message)]
    /\ UNCHANGED << initialized, providers, ready, constructed, initCalls,
                    cache, now, ticks, applied >>

\* a store operation awaited by the task of patient_history, knowledge_base
\* or medical_intelligence never completes (service_classification awaits
\* nothing); one task of a call at most
Hang(c, i) ==
    /\ calls[c].pc = "gather"
    /\ i \in DOMAIN calls[c].context_tasks
    /\ calls[c].context_tasks[i] # "service_classification"
    /\ calls[c].contexts[i] \in { Pending, Fetching }
    /\ \A j \in DOMAIN calls[c].contexts : calls[c].contexts[j] # Hung
    /\ calls' = [calls EXCEPT
          ![c].contexts[i] = Hung,
          ![c].runs[i] = IF calls[c].contexts[i] = Pending THEN @ + 1 ELSE @]
    /\ UNCHANGED << initvars, cache, knowledge, now, ticks, applied >>

\* gather has returned: the rest of get_context
Merge(c) ==
    /\ calls[c].pc = "gather"
    /\ AllSettled(calls[c].contexts)
    /\ Finish(c, calls[c])
    /\ UNCHANGED << initvars, knowledge, now, ticks, applied >>

(***************************************************************************)
(* The other operations, and the clock                                     *)
(***************************************************************************)
\* a classify_interaction that stored its answer under the cache key
MemoizedClassification(key, classification) ==
    Put(cache, key, [timestamp |-> now, context |-> classification])

\* self.cache after classify_interaction, which has no statement on it
CacheAfterClassify(key, classification) == cache

\* classify_interaction: the provider's classify_interaction has no await
ClassifyInteraction(c, user_id, message, conversation_id, failed) ==
    /\ MayStart(c)
    /\ EnsureInitialized(failed)
    /\ cache' = CacheAfterClassify(
                    CacheKey(user_id, conversation_id, message),
                    ClassificationOf[message][ready'["service_classification"]])
    /\ calls' = [calls EXCEPT ![c] =
          [IdleCall EXCEPT
              !.kind = "classify_interaction", !.pc = "done",
              !.user_id = user_id, !.message = message,
              !.conversation_id = conversation_id,
              !.started = now,
              !.after = HaveStored,
              !.ret = Some(ClassificationOf[message][ready'["service_classification"]])]]
    /\ UNCHANGED << knowledge, now, ticks, applied >>

\* get_patient_insights up to its first query of the store
GetPatientInsights(c, user_id, failed) ==
    /\ MayStart(c)
    /\ EnsureInitialized(failed)
    /\ calls' = [calls EXCEPT ![c] =
          [IdleCall EXCEPT !.kind = "get_patient_insights", !.pc = "await",
                           !.user_id = user_id, !.started = now]]
    /\ UNCHANGED << cache, knowledge, now, ticks, applied >>

\* get_patient_summary and analyze_patient_patterns have returned (each
\* returns an error dict when it fails)
InsightsReturn(c) ==
    /\ calls[c].kind = "get_patient_insights"
    /\ calls[c].pc = "await"
    /\ calls' = [calls EXCEPT ![c].pc = "done"]
    /\ UNCHANGED << initvars, cache, knowledge, now, ticks, applied >>

\* a call of initialize() itself
Initialize(c, failed) ==
    /\ MayStart(c)
    /\ EnsureInitialized(failed)
    /\ calls' = [calls EXCEPT ![c] =
          [IdleCall EXCEPT !.kind = "initialize", !.pc = "done", !.started = now,
                           !.raised = (~AlreadyInitialized /\ InitializeOutcome(failed).raised)]]
    /\ UNCHANGED << cache, knowledge, now, ticks, applied >>

\* time passes; a delta passes while at most MaxSlow calls are in flight
Tick(delta) ==
    /\ ticks < MaxTicks
    /\ Cardinality({ c \in Calls : calls[c].pc = "gather" }) <= MaxSlow
    /\ ticks' = ticks + 1
    /\ now' = now + delta
    /\ UNCHANGED << initvars, cache, knowledge, calls, applied >>

Deltas == { cache_ttl - 1, SecondsPerDay }

(***************************************************************************)
(* Specifications                                                          *)
(***************************************************************************)
Init ==
    /\ initialized = FALSE
    /\ providers = << >>
    /\ ready = [p \in Providers |-> FALSE]
    /\ cache = Empty
    /\ knowledge_cache = Empty
    /\ knowledge = << >>
    /\ now = 0
    /\ ticks = 0
    /\ calls = [c \in Calls |-> IdleCall]
    /\ constructed = 0
    /\ initCalls = [p \in Providers |-> 0]
    /\ applied = [op |-> "none"]

Tasks(c) == DOMAIN calls[c].context_tasks

\* Spec: up to MaxCalls get_context calls for the knowledge base, concurrent
\* or one after the other, of one user for two messages that agree on their
\* first PrefixLen characters and of another user for a third message, while
\* time passes
CacheInputs ==
    { << UserA, Msg2 >>, << UserA, Msg1 >>, << UserB, Msg3 >> }

Next ==
    \/ \E c \in Calls, in \in CacheInputs :
          GetContext(c, in[1], in[2], None, Some(<< "knowledge_base" >>), {})
    \/ \E c \in Calls : \E i \in Tasks(c) : KBRun(c, i)
    \/ \E c \in Calls : \E i \in Tasks(c) : KBFetched(c, i, KnowledgeDB)
    \/ \E c \in Calls : Merge(c)
    \/ \E d \in Deltas : Tick(d)

Spec == Init /\ [][Next]_vars

\* SpecAgg: one get_context call on a new server, for the default selection
\* and for every context_types list of up to MaxTypes names, with every
\* outcome of every provider
AggTypes == { None } \cup { Some(l) : l \in TypeLists(MaxTypes) }

NextAgg ==
    \/ \E m \in { Msg3, Msg4 }, ct \in AggTypes :
          GetContext(1, UserA, m, Some(ConvC), ct, {})
    \/ \E i \in Tasks(1) : Settle(1, i)
    \/ \E i \in Tasks(1) : Raise(1, i)
    \/ \E i \in Tasks(1) : KBRun(1, i)
    \/ \E i \in Tasks(1) : KBFetchFailed(1, i)
    \/ \E i \in Tasks(1), entries \in DbResults : KBFetched(1, i, entries)
    \/ Merge(1)

SpecAgg == Init /\ [][NextAgg]_vars

\* SpecInit: up to MaxCalls concurrent calls of the four operations on a new
\* server, whichever providers fail to initialize
NextInit ==
    \/ \E c \in Calls, failed \in SUBSET Providers : Initialize(c, failed)
    \/ \E c \in Calls, failed \in SUBSET Providers :
          GetContext(c, UserA, Msg3, None,
                     Some(<< "service_classification" >>), failed)
    \/ \E c \in Calls, failed \in SUBSET Providers :
          ClassifyInteraction(c, UserA, Msg3, None, failed)
    \/ \E c \in Calls, failed \in SUBSET Providers :
          GetPatientInsights(c, UserA, failed)
    \/ \E c \in Calls : InsightsReturn(c)
    \/ \E c \in Calls : \E i \in Tasks(c) : Settle(c, i)
    \/ \E c \in Calls : Merge(c)

SpecInit == Init /\ [][NextInit]_vars

\* SpecLive: one get_context call whose provider tasks may hang; the event
\* loop runs every task that can run, and the call once gather has returned
LiveTypes ==
    { None, Some(<< "patient_history", "service_classification" >>),
      Some(<< "knowledge_base" >>) }

NextLive ==
    \/ \E m \in { Msg3, Msg4 }, ct \in LiveTypes :
          GetContext(1, UserA, m, Some(ConvC), ct, {})
    \/ \E i \in Tasks(1) : Settle(1, i)
    \/ \E i \in Tasks(1) : Raise(1, i)
    \/ \E i \in Tasks(1) : KBRun(1, i)
    \/ \E i \in Tasks(1) : KBFetched(1, i, KnowledgeDB)
    \/ \E i \in Tasks(1) : Hang(1, i)
    \/ Merge(1)

SpecLive == Init /\ [][NextLive]_vars /\ WF_vars(NextLive)

(***************************************************************************)
(* The functions without state, applied to bounded inputs                  *)
(***************************************************************************)
Absent == [state |-> "absent"]

\* the dict of the records that are not Absent
ContextsOf(ph, sc, kb, mi) ==
    LET all == [n \in Providers |->
                  CASE n = "patient_history" -> ph
                    [] n = "service_classification" -> sc
                    [] n = "knowledge_base" -> kb
                    [] OTHER -> mi]
    IN [n \in { x \in Providers : all[x] # Absent } |-> all[n]]

\* records each provider can return for the messages Msg3 and Msg4
PHRecords == { Absent, PHError } \cup { PHRecord(h, Msg4) : h \in Histories }
SCRecords == { Absent } \cup { SCRecord(ClassificationOf[m][TRUE]) : m \in { Msg3, Msg4 } }
KBRecords ==
    { Absent,
      KBRecord(SpecialtyOf[Msg3], 0, << >>, Msg3),
      KBRecord(SpecialtyOf[Msg3], 1, NewKnowledge(KnowledgeDB), Msg3) }
MIRecords ==
    { Absent, MINoSymptoms } \cup
    { MIRecord(n, k) : n \in 0..MaxCases, k \in 0..MaxTreatments }

\* the max_tokens arguments: none, fewer than a fragment, the default
Budgets == { 0, 10, 2000 }

\* each behaviour of SpecEngine applies one function to one input
Fresh == applied.op = "none"

\* self._generate_context_summary(aggregated_context["contexts"], max_tokens):
\* max_tokens is not used in it
Summarize(contexts, max_tokens) ==
    /\ Fresh
    /\ applied' = [op |-> "_generate_context_summary",
                   contexts |-> contexts,
                   max_tokens |-> max_tokens,
                   raised |-> JoinRaises(contexts),
                   out |-> IF JoinRaises(contexts) THEN << >>
                           ELSE SummaryText(contexts)]
    /\ UNCHANGED server

\* ---- ContextEngine.optimize_context ----
\* A record is known by its place in the input (id), its relevance_score if
\* it has one, and the length of str(record) (chars).
MaxRecords == 3
Scores == { 0 - 20, 50, 90 }
Lengths == { 3, 8, 20 }
RecordShapes ==
    [relevance_score : Scores, chars : Lengths] \cup [chars : Lengths]
RecordLists ==
    UNION { { [i \in 1..n |-> f[i] @@ [id |-> i]] : f \in [1..n -> RecordShapes] }
            : n \in 0..MaxRecords }
TokenBudgets == { 0 - 1, 0, 2, 5, 7 }

\* key=lambda x: x.get("relevance_score", 0)
SortKey(contexts) == [i \in DOMAIN contexts |-> Get(contexts[i], "relevance_score", 0)]

\* sorted(contexts, key=..., reverse=True): descending, equal keys in input order
sorted_contexts(contexts) ==
    LET order == SortDesc([i \in DOMAIN contexts |-> i], SortKey(contexts))
    IN [k \in DOMAIN order |-> contexts[order[k]]]

\* len(str(context)) // 4
estimated_tokens(context) == context.chars \div 4

FitsBefore(token_count, tokens, max_tokens) == token_count <= max_tokens

\* if token_count + estimated_tokens <= max_tokens
Fits(token_count, tokens, max_tokens) == token_count + tokens <= max_tokens

RECURSIVE Select(_, _, _, _)
Continue(rest, selected, token_count, max_tokens) ==
    Select(rest, selected, token_count, max_tokens)

\* else: break
Break(rest, selected, token_count, max_tokens) == selected

\* the loop over sorted_contexts
Select(rest, selected, token_count, max_tokens) ==
    IF rest = << >> THEN selected
    ELSE IF Fits(token_count, estimated_tokens(Head(rest)), max_tokens)
         THEN Select(Tail(rest), Append(selected, Head(rest)),
                     token_count + estimated_tokens(Head(rest)), max_tokens)
         ELSE Break(Tail(rest), selected, token_count, max_tokens)

optimize_context(contexts, max_tokens) ==
    Select(sorted_contexts(contexts), << >>, 0, max_tokens)

Optimize(contexts, max_tokens) ==
    /\ Fresh
    /\ applied' = [op |-> "optimize_context",
                   contexts |-> contexts,
                   max_tokens |-> max_tokens,
                   out |-> optimize_context(contexts, max_tokens)]
    /\ UNCHANGED server

\* ---- ContextEngine.score_relevance ----
Texts == { Msg3, EntryContent }
Timestamps ==
    { [valid |-> FALSE] } \cup
    { [valid |-> TRUE, age_hours |-> h] : h \in { 1, 100, 240, 1000 } }
Confidences == { 0 - 100, 0, 50, 100, 500 }
FieldNames == { "content", "text", "timestamp", "confidence" }

\* the dict that has the fields named in present
RecordOf(present, content, text, timestamp, confidence) ==
    LET all == [content |-> content, text |-> text,
                timestamp |-> timestamp, confidence |-> confidence]
    IN [f \in present |-> all[f]]

Queries == { << >>, Msg3, Msg4 }

Score(context, query) ==
    /\ Fresh
    /\ applied' = [op |-> "score_relevance",
                   context |-> context,
                   query |-> query,
                   out |-> score_relevance(context, query)]
    /\ UNCHANGED server

\* ---- ServiceClassificationProvider.classify_interaction ----
MaxPhrases == 2
Phrases ==
    { <<"p","a","i","n">>,
      <<"s","i","c","k",",">>,
      <<"w","h","e","n"," ","c","a","n">>,
      <<"b","o","o","k">>,
      <<"c","a","n","c","e","l">>,
      <<"r","e","s","c","h","e","d","u","l","e">>,
      <<"s","c","h","e","d","u","l","e">>,
      <<"u","r","g","e","n","t">>,
      <<"a","s","a","p">>,
      <<"e","m","e","r","g","e","n","c","y">>,
      <<"a","n"," ","a","p","p","o","i","n","t","m","e","n","t">>,
      <<"c","l","a","i","m">>,
      <<"f","e","e","d","b","a","c","k">>,
      <<"f","i","l","e">>,
      <<"i"," ","h","a","v","e"," ","a"," ","c","o","u","g","h">>,
      <<"v","i","s","i","t">> }

\* the phrases of a message, joined by blanks
PhraseLists == UNION { [1..n -> Phrases] : n \in 0..MaxPhrases }
ExampleMessages ==
    { <<"C","a","n"," ","I"," ","b","o","o","k"," ","a","n"," ","a","p","p","o","i","n","t","m","e","n","t"," ","f","o","r"," ","t","o","m","o","r","r","o","w","?">>,
      <<"a","s","d","k","j","a","s","d"," ","r","a","n","d","o","m"," ","g","i","b","b","e","r","i","s","h">>,
      <<"p","a","i","n"," ","f","e","v","e","r"," ","b","o","o","k"," ","s","l","o","t"," ","c","l","a","i","m"," ","c","o","p","a","y"," ","a","p","p"," ","b","u","g"," ","f","i","l","e"," ","p","d","f">> }
ClassifiedMessages ==
    ExampleMessages \cup { Join(<< " " >>, l) : l \in PhraseLists }

\* the ruleset of a provider whose initialize() built it, or did not
RulesetOf(built) == IF built THEN classification_patterns ELSE << >>

\* classify_interaction(user_id, message) of a provider whose ruleset was
\* built by initialize(), or was not
Classify(message, built) ==
    /\ Fresh
    /\ applied' = [op |-> "classify_interaction",
                   message |-> message,
                   built |-> built,
                   out |-> classify_interaction(message, RulesetOf(built))]
    /\ UNCHANGED server

\* ---- the get_context of the four providers ----
\* a message that names five symptoms and a medication
LongMessage ==
    <<"p","a","i","n"," ","f","e","v","e","r"," ","c","o","u","g","h"," ","n","a","u","s","e","a"," ","h","e","a","d","a","c","h","e"," ","i","b","u","p","r","o","f","e","n">>
PastSymptoms ==
    << <<"p","a","i","n">>,
       <<"f","e","v","e","r">>,
       <<"c","o","u","g","h">>,
       <<"n","a","u","s","e","a">>,
       <<"h","e","a","d","a","c","h","e">> >>

\* histories of up to five symptoms, with and without a medication, of no,
\* one and six conversations, the latest of today, 10 and 40 days ago
LongHistories ==
    { [conversations |-> n, symptoms |-> Take(PastSymptoms, k),
       medications |-> m, latest_age_days |-> d] :
         n \in { 0, 1, 6 }, k \in 0..Len(PastSymptoms),
         m \in { << >>, << <<"i","b","u","p","r","o","f","e","n">> >> }, d \in { 0, 10, 40 } }

\* the numbers of messages _find_similar_cases can find
CaseCounts == { 0, 1, 9, 10, 11, 50 }

\* the knowledge lists: up to MaxEntries entries of the same content
MaxEntries == 6
KnowledgeLists == { NewKnowledge([j \in 1..n |-> EntryContent]) : n \in 0..MaxEntries }

\* provider.get_context returned out for the input
Provide(provider, input, out) ==
    /\ Fresh
    /\ applied' = [op |-> "get_context", provider |-> provider,
                   input |-> input, out |-> out]
    /\ UNCHANGED server

NextEngine ==
    \/ \E h \in LongHistories :
          Provide("patient_history", h, PHRecord(h, LongMessage))
    \/ Provide("patient_history", << >>, PHError)
    \/ \E message \in ClassifiedMessages, built \in BOOLEAN :
          Provide("service_classification", message,
                  SCRecord(classify_interaction(message, RulesetOf(built))))
    \/ \E list \in KnowledgeLists, message \in AllMessages :
          Provide("knowledge_base", Rescored(list, message),
                  KBRecord(SpecialtyOf[message], 1, list, message))
    \/ \E cases \in CaseCounts, treatments \in 0..MaxTreatments :
          Provide("medical_intelligence", << >>, MIRecord(cases, treatments))
    \/ Provide("medical_intelligence", << >>, MINoSymptoms)
    \/ \E message \in ClassifiedMessages, built \in BOOLEAN : Classify(message, built)
    \/ \E present \in SUBSET FieldNames, content \in Texts, text \in { Msg3 },
          timestamp \in Timestamps, confidence \in Confidences, query \in Queries :
          Score(RecordOf(present, content, text, timestamp, confidence), query)
    \/ \E contexts \in RecordLists, max_tokens \in TokenBudgets :
          Optimize(contexts, max_tokens)
    \/ \E ph \in PHRecords, sc \in SCRecords, kb \in KBRecords, mi \in MIRecords,
          max_tokens \in Budgets :
          Summarize(ContextsOf(ph, sc, kb, mi), max_tokens)

SpecEngine == Init /\ [][NextEngine]_vars

\* SpecKey: up to MaxCalls get_context calls, concurrent or one after the
\* other, whose identifiers write the same cache key in different ways and
\* whose context_types differ, with every outcome of their provider tasks,
\* while time passes
UserShort == << "a" >>
UserColon == << "a", ":", "b" >>
ConvColon == << "b", ":", "c" >>
ConvNone == << "N", "o", "n", "e" >>
BothTypes == Some(<< "patient_history", "service_classification" >>)
OneType == Some(<< "service_classification" >>)

\* user_id, conversation_id, context_types
KeyInputs ==
    { << UserShort, Some(ConvColon), BothTypes >>,
      << UserShort, Some(ConvColon), OneType >>,
      << UserColon, Some(ConvC), OneType >>,
      << UserShort, None, OneType >>,
      << UserShort, Some(ConvNone), OneType >> }

NextKey ==
    \/ \E c \in Calls, in \in KeyInputs :
          GetContext(c, in[1], Msg3, in[2], in[3], {})
    \/ \E c \in Calls : \E i \in Tasks(c) : Settle(c, i)
    \/ \E c \in Calls : \E i \in Tasks(c) : Raise(c, i)
    \/ \E c \in Calls : Merge(c)
    \/ Tick(cache_ttl - 1)

SpecKey == Init /\ [][NextKey]_vars

(***************************************************************************)
(* MCPServer.shutdown                                                      *)
(***************************************************************************)
\* What hasattr(provider, "shutdown") and the hook give for each provider:
\* "none" for a provider without the hook, as the four provider classes
\* are, "returns" and "raises" for an object in self.providers that has one.
HookKinds == { "none", "returns", "raises" }

\* the loop "for provider in self.providers.values()" from rest on; the
\* await of a hook that raises is not in a try, so the loop ends there
RECURSIVE RunHooks(_, _, _)
RunHooks(rest, hooks, called) ==
    IF rest = << >> THEN [called |-> called, raised |-> FALSE]
    ELSE IF hooks[Head(rest)] = "none" THEN RunHooks(Tail(rest), hooks, called)
    ELSE IF hooks[Head(rest)] = "raises"
         THEN [called |-> Append(called, Head(rest)), raised |-> TRUE]
         ELSE RunHooks(Tail(rest), hooks, Append(called, Head(rest)))

Shutdown(hooks) ==
    /\ Fresh
    /\ applied' = [op |-> "shutdown",
                   hooks |-> hooks,
                   registered |-> providers,
                   called |-> RunHooks(providers, hooks, << >>).called,
                   raised |-> RunHooks(providers, hooks, << >>).raised]
    /\ UNCHANGED server

NextShutdown ==
    \/ \E c \in Calls, failed \in SUBSET Providers : Initialize(c, failed)
    \/ \E hooks \in [Providers -> HookKinds] : Shutdown(hooks)

SpecShutdown == Init /\ [][NextShutdown]_vars

(***************************************************************************)
(* Properties                                                              *)
(***************************************************************************)
IsGetContext(c) == calls[c].kind = "get_context"

\* the call has returned a result to its caller
Returned(c) == IsGetContext(c) /\ calls[c].pc = "done" /\ ~calls[c].raised

\* the call returned a result it computed itself
Computed(c) == Returned(c) /\ ~calls[c].hit

KeyOf(c) == CacheKey(calls[c].user_id, calls[c].conversation_id, calls[c].message)

RECURSIVE SumOver(_, _)
SumOver(contexts, names) ==
    IF names = {} THEN 0
    ELSE LET n == CHOOSE n \in names : TRUE
         IN Get(contexts[n], "relevance_score", 0) + SumOver(contexts, names \ { n })

\* the tasks of call c that returned a record
Answered(c) == { i \in Tasks(c) : calls[c].contexts[i] # Raised }

\* C1: of two get_context calls with the same user, conversation and first
\* PrefixLen characters of message, where the second starts after the first
\* has stored its result and less than cache_ttl after that, the second is a
\* cache hit (it invokes no provider) and returns what the first returned.
SecondCallReturnsTheSame ==
    \A c, d \in Calls :
        ( /\ IsGetContext(c) /\ IsGetContext(d)
          /\ KeyOf(c) = KeyOf(d)
          /\ c \in calls[d].after
          /\ calls[d].started - calls[c].stored < cache_ttl
          /\ calls[d].pc = "done" )
        => calls[d].hit /\ calls[d].ret = calls[c].ret

\* C2: a call is answered from the cache only when the entry it found is
\* younger than cache_ttl; at every age of cache_ttl or more it is a miss.
HitOnlyWhileYoungerThanTtl ==
    \A c \in Calls : IsGetContext(c) /\ calls[c].hit => calls[c].age < cache_ttl

\* C3: the content of every cached AggregatedContext, the relevance_score of
\* the knowledge entries it lists included, is the content it had when it
\* was stored, and every cache hit returned stored content.
CachedContentNeverChanges ==
    \A k \in DOMAIN cache : Content(cache[k].context) = cache[k].as_stored

\* C4: a call that ran all four providers, exactly one of which raised,
\* returns a result that holds exactly the other three records, each under
\* its provider's name, and their relevance_score sum as total_relevance.
OneFailureKeepsTheOthers ==
    \A c \in Calls :
        ( /\ IsGetContext(c) /\ calls[c].pc = "done" /\ ~calls[c].hit
          /\ Len(calls[c].context_tasks) = 4
          /\ Range(calls[c].context_tasks) = Providers
          /\ Cardinality(Tasks(c) \ Answered(c)) = 1 )
        => /\ Returned(c)
           /\ DOMAIN calls[c].ret[1].contexts =
                 { calls[c].context_tasks[i] : i \in Answered(c) }
           /\ \A i \in Answered(c) :
                 calls[c].ret[1].contexts[calls[c].context_tasks[i]] =
                     Deref(calls[c].contexts[i])
           /\ calls[c].ret[1].total_relevance =
                 SumSeq([i \in Tasks(c) |->
                            IF i \in Answered(c)
                            THEN Get(calls[c].contexts[i], "relevance_score", 0)
                            ELSE 0])

\* C5: get_context never raises to its caller, whatever each provider
\* raised or returned.
GetContextNeverRaises ==
    \A c \in Calls : IsGetContext(c) => ~calls[c].raised

\* C6: in a result computed on a miss, contexts[name] is a record that the
\* provider registered as name returned in this call, and every task that
\* returned a record has its provider's name in contexts.
ContextsAreUnderTheirOwnNames ==
    \A c \in Calls : Computed(c) =>
        /\ \A name \in DOMAIN calls[c].ret[1].contexts :
              \E i \in Answered(c) :
                 /\ calls[c].context_tasks[i] = name
                 /\ calls[c].ret[1].contexts[name] = Deref(calls[c].contexts[i])
        /\ \A i \in Answered(c) :
              calls[c].context_tasks[i] \in DOMAIN calls[c].ret[1].contexts

\* C7: in every returned AggregatedContext, total_relevance is the sum of
\* relevance_score over the records in contexts.
TotalIsTheSumOfContexts ==
    \A c \in Calls : Returned(c) =>
        calls[c].ret[1].total_relevance =
            SumOver(calls[c].ret[1].contexts, DOMAIN calls[c].ret[1].contexts)

\* C8: a call that missed has merged, cached and returned (or raised) only
\* with every one of its provider tasks settled: none is still running when
\* the call is past gather, and every cache entry was written by such a call.
MergedOnlyWhenAllSettled ==
    /\ \A c \in Calls :
          IsGetContext(c) /\ calls[c].pc = "done" /\ ~calls[c].hit
          => AllSettled(calls[c].contexts)
    /\ \A k \in DOMAIN cache : AllSettled(calls[cache[k].by].contexts)

\* a miss over at least two providers, one raised and one answered, that
\* has been merged and cached
MergedWithOneRaised ==
    \E c \in Calls :
        /\ Computed(c)
        /\ KeyOf(c) \in DOMAIN cache /\ cache[KeyOf(c)].by = c
        /\ Answered(c) # {} /\ Tasks(c) \ Answered(c) # {}

\* C9: the provider set is constructed at most once and each provider's
\* initialize() is called at most once, however initialize, get_context,
\* classify_interaction and get_patient_insights calls interleave.
InitializedAtMostOnce ==
    /\ constructed <= 1
    /\ \A p \in Providers : initCalls[p] <= 1

\* initialize() is called while another call, which initialized the server,
\* is still in flight
InitializeDuringACall ==
    /\ constructed = 1
    /\ \E c, d \in Calls :
          /\ c < d
          /\ calls[c].pc \in { "gather", "await" }
          /\ calls[d].kind = "initialize" /\ calls[d].pc = "done"

\* C10: once a call of initialize() has returned, initialized is true and
\* providers holds exactly the four names, whichever providers failed to
\* initialize, and the call did not raise.
InitializeAlwaysCompletes ==
    \A c \in Calls :
        calls[c].kind = "initialize" /\ calls[c].pc = "done"
        => /\ initialized
           /\ providers = ProviderNames
           /\ ~calls[c].raised

\* initialize() has returned although two providers failed to initialize
InitializedWithFailedProviders ==
    /\ calls[1].kind = "initialize" /\ calls[1].pc = "done"
    /\ ~ready["knowledge_base"] /\ ~ready["patient_history"]
    /\ ready["medical_intelligence"]

\* C11: a provider task in which a store operation or another step failed
\* does not raise: it returns a record with the provider's source tag,
\* relevance_score 0 and an error field.
FailedStepGivesErrorRecord ==
    \A c \in Calls : \A i \in calls[c].faulted :
        /\ calls[c].contexts[i] # Raised
        /\ Get(calls[c].contexts[i], "source", "") = calls[c].context_tasks[i]
        /\ Get(calls[c].contexts[i], "relevance_score", NoScore) = 0
        /\ "error" \in DOMAIN calls[c].contexts[i]

\* C12: a classify_interaction call leaves the aggregation cache as it was
\* and returns the classification computed from its message by the
\* provider's table, also when the cache holds a fresh entry for its key.
ClassifyBypassesCache ==
    [][ \A c \in Calls :
          (calls[c].pc = "idle" /\ calls'[c].kind = "classify_interaction")
          => /\ cache' = cache
             /\ calls'[c].ret =
                   Some(classify_interaction(calls'[c].message,
                           IF ready'["service_classification"]
                           THEN classification_patterns ELSE << >>)) ]_vars

\* a classify_interaction that started when a get_context of the same user,
\* conversation and message had stored its result, still in the cache
ClassifiedWithFreshEntry ==
    \E c, d \in Calls :
        /\ calls[c].kind = "classify_interaction" /\ calls[c].pc = "done"
        /\ d \in calls[c].after
        /\ KeyOf(d) = KeyOf(c)
        /\ IsFresh(KeyOf(c))

\* C13: every get_context call that waits for its providers returns in the
\* end, also when one of them never completes.
EveryCallReturns ==
    \A c \in Calls : (calls[c].pc = "gather") ~> (calls[c].pc = "done")

\* the names a call selected: its context_types, or the default
Selection(c) ==
    IF calls[c].context_types = None \/ calls[c].context_types = Some(<< >>)
    THEN ProviderNames ELSE calls[c].context_types[1]

Occurrences(seq, x) == Cardinality({ i \in DOMAIN seq : seq[i] = x })

\* no task is started twice; a call that missed has started each of its
\* tasks once when it is done; a hit has no task
NoTaskStartedTwice ==
    \A c \in Calls : IsGetContext(c) =>
        /\ \A i \in Tasks(c) : calls[c].runs[i] <= 1
        /\ calls[c].pc = "done" /\ ~calls[c].hit
           => \A i \in Tasks(c) : calls[c].runs[i] = 1
        /\ calls[c].hit => calls[c].context_tasks = << >>

RacedOnOneKey(c, d) ==
    /\ c # d /\ Computed(c) /\ Computed(d)
    /\ KeyOf(c) = KeyOf(d)
    /\ c \notin calls[d].after /\ d \notin calls[c].after
    /\ \A e \in Calls \ { c, d } : calls[e].pc = "idle"

\* the knowledge entries of the result of c carry the score of c's message
BuiltFromOwnFanOut(c) ==
    \A name \in DOMAIN calls[c].ret[1].contexts :
        LET rec == calls[c].ret[1].contexts[name]
        IN "relevant_knowledge" \in DOMAIN rec =>
              \A k \in DOMAIN rec.relevant_knowledge :
                 rec.relevant_knowledge[k].relevance_score =
                    RelevanceOf[calls[c].message][rec.relevant_knowledge[k].content]

\* C15: when two concurrent calls with one cache key have both missed and
\* returned, each result was built from the call's own provider results, and
\* the cache entry of the key is the result returned to one of the two.
RaceOnlyRecomputes ==
    \A c, d \in Calls : RacedOnOneKey(c, d) =>
        /\ BuiltFromOwnFanOut(c)
        /\ KeyOf(c) \in DOMAIN cache
        /\ Content(cache[KeyOf(c)].context) \in { calls[c].ret[1], calls[d].ret[1] }

\* len(text) // 4
EstimatedTokens(text) == Len(text) \div 4

Summarized == applied.op = "_generate_context_summary" /\ ~applied.raised

\* C16: the estimated token size of a returned context_summary is at most
\* the max_tokens it was computed for.
SummaryWithinMaxTokens ==
    Summarized => EstimatedTokens(applied.out) <= applied.max_tokens

\* the fragment the summary is to hold for each provider, in the fixed
\* order: none for a provider that is absent, returned an error record or
\* has nothing to report, and no symptom sentence without symptoms
ExpectedFragments(contexts) ==
    LET all == _generate_context_summary(contexts)
    IN [k \in DOMAIN all |->
          IF all[k].part = "Patient History" /\ all[k].symptoms = << >>
          THEN <<"P","a","t","i","e","n","t"," ","H","i","s","t","o","r","y",":"," ">>
               \o Str(all[k].conversations)
               \o <<" ","p","r","e","v","i","o","u","s"," ","c","o","n","v","e","r","s","a","t","i","o","n","s",".">>
          ELSE FragmentText(all[k])]

\* the providers whose output is not empty, in the fixed order
NonEmptyProviders(contexts) ==
    SelectSeq(ProviderNames,
        LAMBDA n :
            /\ n \in DOMAIN contexts
            /\ "error" \notin DOMAIN contexts[n]
            /\ CASE n = "patient_history" -> contexts[n].previous_conversations # 0
                 [] n = "service_classification" -> TRUE
                 [] n = "knowledge_base" -> contexts[n].relevant_knowledge # << >>
                 [] OTHER -> Get(contexts[n], "similar_cases", 0) # 0)

PartOf ==
    "patient_history" :> "Patient History" @@
    "service_classification" :> "Likely Service" @@
    "knowledge_base" :> "Relevant Medical Knowledge" @@
    "medical_intelligence" :> "Similar Cases"

\* C17: context_summary joins with " | " one fragment for each provider in
\* contexts whose output is not empty, in the fixed order, the symptom
\* sentence left out when no symptoms were found; absent providers and error
\* records give no fragment.
SummaryIsTheJoinedFragments ==
    Summarized =>
        /\ [k \in DOMAIN _generate_context_summary(applied.contexts) |->
               _generate_context_summary(applied.contexts)[k].part]
           = [k \in DOMAIN NonEmptyProviders(applied.contexts) |->
               PartOf[NonEmptyProviders(applied.contexts)[k]]]
        /\ applied.out =
              Join(<< " ", "|", " " >>, ExpectedFragments(applied.contexts))

\* sum over the records of len(str(r)) // 4
TokenSum(records) == SumSeq([k \in DOMAIN records |-> estimated_tokens(records[k])])

Optimized == applied.op = "optimize_context"

\* C18 as stated: for every list of records and every max_tokens, the
\* estimated token sum of the records optimize_context returns is at most
\* max_tokens.
SelectedWithinAnyBudget ==
    Optimized => TokenSum(applied.out) <= applied.max_tokens

\* C18 amended: the same for every max_tokens that is not negative.
SelectedWithinBudget ==
    (Optimized /\ applied.max_tokens >= 0) =>
        TokenSum(applied.out) <= applied.max_tokens

\* a budget was filled to the last token by more than one record
BudgetFilledByTwo ==
    /\ Optimized
    /\ Len(applied.out) >= 2
    /\ applied.max_tokens > 0
    /\ TokenSum(applied.out) = applied.max_tokens
    /\ Len(applied.out) < Len(applied.contexts)

\* a is ranked before b: a higher relevance_score (0 when it has none), or
\* the same one and an earlier place in the input
RankedBefore(a, b) ==
    LET ka == Get(a, "relevance_score", 0)
        kb == Get(b, "relevance_score", 0)
    IN ka > kb \/ (ka = kb /\ a.id < b.id)

LeftOut(contexts, out) == Range(contexts) \ Range(out)

\* C19: optimize_context returns the longest prefix of the records ranked by
\* descending relevance_score, equal scores in input order, whose running
\* token total stays within max_tokens: the returned records are in rank
\* order, every record left out is ranked after all of them, and the first
\* record left out does not fit in the remaining budget.
LongestRankedPrefixWithinBudget ==
    Optimized =>
        LET out == applied.out
            rest == LeftOut(applied.contexts, out)
        IN /\ Range(out) \subseteq Range(applied.contexts)
           /\ \A i, j \in DOMAIN out : i < j => RankedBefore(out[i], out[j])
           /\ \A r \in rest : \A o \in Range(out) : RankedBefore(o, r)
           /\ out # << >> => TokenSum(out) <= applied.max_tokens
           /\ \A r \in rest :
                (\A q \in rest \ { r } : RankedBefore(r, q)) =>
                    TokenSum(out) + estimated_tokens(r) > applied.max_tokens

\* records were returned, the first record that did not fit has the score
\* of the last one returned, and a record ranked after it would have fitted
\* in the budget that was left
SmallerRecordNotTaken ==
    /\ Optimized
    /\ applied.out # << >>
    /\ \E r \in LeftOut(applied.contexts, applied.out) :
          TokenSum(applied.out) + estimated_tokens(r) <= applied.max_tokens
    /\ \E q \in LeftOut(applied.contexts, applied.out) :
          /\ Get(q, "relevance_score", 0)
                = Get(applied.out[Len(applied.out)], "relevance_score", 0)
          /\ TokenSum(applied.out) + estimated_tokens(q) > applied.max_tokens

\* C20: score_relevance returns a value between 0.0 and 1.0 for every
\* record and query, whatever the shared words, the age and the confidence
\* of the record.
ScoreBetweenZeroAndOne ==
    applied.op = "score_relevance" => (0 <= applied.out /\ applied.out <= 100)

Scored == applied.op = "score_relevance"

\* the record has a timestamp that is 10 days old and no content field of
\* it shares a word with the query
TenDaysOldNoOverlap ==
    /\ Scored
    /\ "timestamp" \in DOMAIN applied.context
    /\ applied.context.timestamp.valid
    /\ applied.context.timestamp.age_hours = 240
    /\ KeywordScore(applied.context, applied.query) = 0

\* the same record timestamped one hour ago
OneHourOld(context) == [context EXCEPT !.timestamp.age_hours = 1]

Classified == applied.op = "classify_interaction"

\* the keyword hits and the pattern hits of the message on type k
KeywordHits(k) ==
    keyword_matches(Lower(applied.message), classification_patterns[k].keywords)
PatternHits(k) ==
    pattern_matches(Lower(applied.message), classification_patterns[k].patterns)

\* no service type of the ruleset has a keyword hit or a pattern hit
NoHit ==
    \A k \in DOMAIN RulesetOf(applied.built) : KeywordHits(k) = 0 /\ PatternHits(k) = 0

RulesetTypes ==
    { classification_patterns[k].service_type : k \in DOMAIN classification_patterns }

\* C22: classify_interaction returns General Query with confidence 0.3 and
\* empty sub_services and alternatives exactly when no service type has a
\* keyword hit or a pattern hit, the ruleset that was never built included;
\* otherwise it returns one of the seven types of the ruleset.
FallbackExactlyWhenNoHit ==
    Classified =>
        /\ NoHit <=> applied.out = [service_type |-> "General Query",
                                    confidence |-> 30,
                                    sub_services |-> << >>,
                                    alternatives |-> << >>]
        /\ ~NoHit => applied.out.service_type \in RulesetTypes
        /\ Cardinality(RulesetTypes) = 7
        /\ applied.out.service_type \in RulesetTypes \cup { "General Query" }

\* a message without a hit was classified with the ruleset built
GibberishClassified ==
    /\ Classified
    /\ applied.built
    /\ applied.message # << >>
    /\ NoHit
    /\ applied.out.service_type = "General Query"

\* the score of type k by the formula, in thousandths
FormulaScore(k) ==
    (600 * Min(KeywordHits(k), 3)) \div 3 + (400 * Min(PatternHits(k), 2)) \div 2

ScoreOf(k) == ServiceScore(Lower(applied.message), classification_patterns[k])

\* the place in the ruleset of the returned service type
ReturnedType ==
    CHOOSE k \in DOMAIN classification_patterns :
        classification_patterns[k].service_type = applied.out.service_type

\* C23: the score of a type with k keyword hits and p pattern hits is
\* 0.6 * min(k/3, 1) + 0.4 * min(p/2, 1) (to the rounding of the floating
\* point); when some score is positive the returned type has the greatest
\* score, the type listed first winning a tie, and the returned confidence
\* is that score and is in (0, 1].
TopIsFirstMaximum ==
    (Classified /\ applied.built) =>
        /\ \A k \in DOMAIN classification_patterns :
              /\ FormulaScore(k) - ScoreOf(k) \in { 0, 1 }
              /\ Hundredths(ScoreOf(k)) = Hundredths(FormulaScore(k))
        /\ ~NoHit =>
              /\ applied.out.service_type \in RulesetTypes
              /\ \A k \in DOMAIN classification_patterns :
                    \/ ScoreOf(k) < ScoreOf(ReturnedType)
                    \/ ScoreOf(k) = ScoreOf(ReturnedType) /\ k >= ReturnedType
              /\ applied.out.confidence = Hundredths(ScoreOf(ReturnedType))
              /\ applied.out.confidence > 0
              /\ applied.out.confidence <= 100

\* two types had the greatest score and the one listed first was returned
TieWonByTheFirst ==
    /\ Classified
    /\ applied.built
    /\ ~NoHit
    /\ \E k \in DOMAIN classification_patterns :
          k > ReturnedType /\ ScoreOf(k) = ScoreOf(ReturnedType)

\* the types other than the returned one whose score is above 0.3
OtherHighTypes ==
    IF NoHit THEN {}
    ELSE { classification_patterns[k].service_type :
             k \in { j \in DOMAIN classification_patterns :
                       j # ReturnedType /\ ScoreOf(j) > 300 } }

\* C24: alternatives lists every service type other than the top pick whose
\* confidence is above 0.3 and no other, by descending confidence, none
\* above the top confidence.
AlternativesAreAllOthersAboveThreshold ==
    (Classified /\ applied.built) =>
        LET alternatives == applied.out.alternatives
        IN /\ { alternatives[k].service_type : k \in DOMAIN alternatives } = OtherHighTypes
           /\ \A k \in DOMAIN alternatives :
                 /\ alternatives[k].service_type # applied.out.service_type
                 /\ alternatives[k].confidence > 30
                 /\ alternatives[k].confidence <= applied.out.confidence
           /\ \A i, j \in DOMAIN alternatives :
                 i < j => alternatives[i].confidence >= alternatives[j].confidence

\* kw in message_lower
Has(word) == Contains(Lower(applied.message), word)

HasCancel ==
    Has(<<"c","a","n","c","e","l">>) \/ Has(<<"r","e","s","c","h","e","d","u","l","e">>)
HasBook ==
    Has(<<"b","o","o","k">>) \/ Has(<<"s","c","h","e","d","u","l","e">>)
HasUrgent ==
    \/ Has(<<"u","r","g","e","n","t">>)
    \/ Has(<<"a","s","a","p">>)
    \/ Has(<<"e","m","e","r","g","e","n","c","y">>)

\* C30: for a message classified as Appointment Booking, sub_services has
\* "modification" exactly when the message contains "cancel" or
\* "reschedule", "new_booking" exactly when it contains "book" or "schedule"
\* and neither of those, "urgent" exactly when it contains "urgent", "asap"
\* or "emergency"; for every type but Health Query and Appointment Booking
\* sub_services is empty.
SubServicesOfAppointments ==
    Classified =>
        LET tags == Range(applied.out.sub_services)
        IN /\ applied.out.service_type = "Appointment Booking" =>
                /\ "modification" \in tags <=> HasCancel
                /\ "new_booking" \in tags <=> (HasBook /\ ~HasCancel)
                /\ "urgent" \in tags <=> HasUrgent
                /\ tags \subseteq { "modification", "new_booking", "urgent" }
                /\ Len(applied.out.sub_services) = Cardinality(tags)
           /\ applied.out.service_type \notin { "Health Query", "Appointment Booking" } =>
                applied.out.sub_services = << >>

\* an appointment message that both cancels and books was tagged
CancelAndBookTagged ==
    /\ Classified
    /\ applied.out.service_type = "Appointment Booking"
    /\ HasCancel
    /\ HasBook
    /\ HasUrgent
    /\ applied.out.sub_services = << "modification", "urgent" >>

ContextsWithinRequestedTypes ==
    \A c \in Calls :
        (Returned(c) /\ calls[c].context_types # None) =>
            DOMAIN calls[c].ret[1].contexts \subseteq Range(calls[c].context_types[1])

\* C27: a call is never answered with a context made for another user or
\* conversation, and two calls have the same cache key only if their
\* user_id, their conversation_id and their first PrefixLen characters of
\* message are each equal.
NoContextOfAnotherUser ==
    /\ \A c \in Calls :
          Returned(c) =>
              /\ calls[c].ret[1].user_id = calls[c].user_id
              /\ calls[c].ret[1].conversation_id = calls[c].conversation_id
    /\ \A c, d \in Calls :
          (IsGetContext(c) /\ IsGetContext(d) /\ KeyOf(c) = KeyOf(d)) =>
              /\ calls[c].user_id = calls[d].user_id
              /\ calls[c].conversation_id = calls[d].conversation_id
              /\ Take(calls[c].message, PrefixLen) = Take(calls[d].message, PrefixLen)

\* a task of call d ended with an exception and d stored its result
StoredDegraded(d) ==
    /\ Computed(d)
    /\ calls[d].stored # NoScore
    /\ \E i \in DOMAIN calls[d].contexts : calls[d].contexts[i] = Raised

\* C28: once a call in which a provider raised has stored its result, every
\* call with the same key that starts less than cache_ttl after that is
\* answered with that result and starts no provider task, so that a provider
\* runs again for the key only after the entry has expired.
DegradedResultServedUntilExpiry ==
    \A c, d \in Calls :
        ( /\ StoredDegraded(d)
          /\ IsGetContext(c)
          /\ calls[c].pc = "done"
          /\ KeyOf(c) = KeyOf(d)
          /\ d \in calls[c].after
          /\ calls[c].started - calls[d].stored < cache_ttl )
        => /\ calls[c].hit
           /\ calls[c].context_tasks = << >>
           /\ calls[c].ret = calls[d].ret

Provided == applied.op = "get_context"

\* the scores of the first five entries listed in the knowledge record
TopFiveScores ==
    LET listed == Take(applied.out.relevant_knowledge, 5)
    IN [k \in DOMAIN listed |-> applied.input[listed[k][2]].relevance_score]

\* C29: every record a provider's get_context returns has a relevance_score
\* between 0 and 1: for patient history the sum of its terms clamped at 1,
\* for service classification the confidence, for the knowledge base the
\* fifth of the sum of the top five entry scores, for medical intelligence
\* min(similar cases / 10, 1); the records of the paths without data, without
\* symptoms and of the internal failure have it too.
RelevanceScoreInRange ==
    Provided =>
        /\ "relevance_score" \in DOMAIN applied.out
        /\ applied.out.relevance_score >= 0
        /\ applied.out.relevance_score <= 100
        /\ "error" \in DOMAIN applied.out => applied.out.relevance_score = 0
        /\ (applied.provider = "patient_history" /\ "error" \notin DOMAIN applied.out) =>
              LET h == applied.input
                  sum == 20 * Cardinality({ i \in DOMAIN h.symptoms :
                                              Contains(LongMessage, h.symptoms[i]) })
                       + 20 * Cardinality({ i \in DOMAIN h.medications :
                                              Contains(LongMessage, h.medications[i]) })
                       + (IF h.conversations = 0 \/ h.latest_age_days >= 30 THEN 0
                          ELSE IF h.latest_age_days < 7 THEN 30 ELSE 10)
                       + (IF h.conversations > 5 THEN 20 ELSE 0)
              IN applied.out.relevance_score = (IF sum > 100 THEN 100 ELSE sum)
        /\ applied.provider = "service_classification" =>
              applied.out.relevance_score = applied.out.confidence
        /\ applied.provider = "knowledge_base" =>
              applied.out.relevance_score = SumSeq(TopFiveScores) \div 5
        /\ (applied.provider = "medical_intelligence"
              /\ "similar_cases" \in DOMAIN applied.out) =>
              applied.out.relevance_score =
                 (IF applied.out.similar_cases >= 10 THEN 100
                  ELSE 10 * applied.out.similar_cases)

\* medical intelligence found more than ten similar cases
MoreThanTenCases ==
    /\ Provided
    /\ applied.provider = "medical_intelligence"
    /\ "similar_cases" \in DOMAIN applied.out
    /\ applied.out.similar_cases > 10
    /\ applied.out.relevance_score = 100

====
